---------------------------- MODULE Spec2Model ----------------------------
(***************************************************************************)
(* Model of the C-header binding compiler of twin.py: ctypes_preprocess,   *)
(* the ctypes_parse_* family, ctypes_get_or_create_type, ctypes_hook_dll   *)
(* and CTypesHelper.                                                       *)
(*                                                                         *)
(* Text.  A Python string is modelled as the sequence of its lexemes: a    *)
(* maximal run of \w characters is one lexeme (a "word"), every other      *)
(* character is a lexeme of its own (" " and "\n" are the whitespace       *)
(* lexemes; "//", "/*" and "*/" are kept as one lexeme each).  The regular *)
(* expressions of the source are translated to matchers over lexemes; two  *)
(* words are never adjacent in a text.  No word of a modelled text has     *)
(* "const", "extern" or "__stdcall" as a proper substring.                 *)
(***************************************************************************)
EXTENDS Integers, Sequences, FiniteSets, TLC

(***************************************************************************)
(* Lexical helpers: \s, \w, str.strip, str.split, str.count, str.replace   *)
(***************************************************************************)
NonWord == {" ", "\n", "{", "}", ";", ",", "*", "[", "]", "(", ")", "#",
            "//", "/*", "*/", "-", "."}

IsSpace(t) == t \in {" ", "\n"}

IsWord(t) == t \notin NonWord

\* the least element of a non-empty set of integers
Least(S) == CHOOSE j \in S : \A k \in S : j <= k

\* index of the first lexeme at or after i that is in set (Len+1 if none)
Find(s, i, set) == Least({j \in i..Len(s) : s[j] \in set} \cup {Len(s) + 1})

\* index of the first lexeme at or after i that is not in set (Len+1 if none)
Skip(s, i, set) == Least({j \in i..Len(s) : s[j] \notin set} \cup {Len(s) + 1})

\* index of the first lexeme at or after i that is not whitespace (Len+1 if none)
SkipSpace(s, i) == Skip(s, i, {" ", "\n"})

\* index of the last lexeme at or before i that is not whitespace (0 if none)
SkipSpaceBack(s, i) ==
    LET S == {j \in 1..i : ~IsSpace(s[j])} \cup {0}
    IN  CHOOSE j \in S : \A k \in S : k <= j

\* s[i:] of Python, for the 0-based offset i
Tail0(s, i) == SubSeq(s, i + 1, Len(s))

\* str.strip()
Strip(s) == SubSeq(s, SkipSpace(s, 1), SkipSpaceBack(s, Len(s)))

\* str.split(sep) for a one-character separator
RECURSIVE Split(_, _)
Split(s, sep) ==
    LET j == Find(s, 1, {sep})
    IN  IF j > Len(s) THEN <<s>>
        ELSE <<SubSeq(s, 1, j - 1)>> \o Split(SubSeq(s, j + 1, Len(s)), sep)

\* str.split() on whitespace runs
RECURSIVE SplitSpace(_)
SplitSpace(s) ==
    LET i == SkipSpace(s, 1)
        j == Find(s, i, {" ", "\n"})
    IN  IF i > Len(s) THEN <<>>
        ELSE <<SubSeq(s, i, j - 1)>> \o SplitSpace(SubSeq(s, j, Len(s)))

\* str.count(t) for a one-lexeme t
Count(s, t) == Cardinality({i \in 1..Len(s) : s[i] = t})

\* str.replace(t, "") for a one-lexeme t
Remove(s, t) == SelectSeq(s, LAMBDA x : x # t)

(***************************************************************************)
(* ctypes_preprocess (the regular expression of lines 635-640)             *)
(***************************************************************************)
Directives == {"ifdef", "else", "endif", "ifndef", "include"}

\* the index of the last lexeme of what the expression removes when it
\* matches at i, and i - 1 when it does not match at i
Removed(s, i) ==
    IF \/ s[i] = "#" /\ i < Len(s) /\ s[i + 1] \in Directives
       \/ s[i] \in {"extern", "//"}
    THEN \* up to, not including, the end of line
         Find(s, i, {"\n"}) - 1
    ELSE IF s[i] = "}" /\ i < Len(s) /\ s[i + 1] = "\n" THEN i + 1
    ELSE IF s[i] = "/*" /\ Find(s, i + 1, {"*/"}) <= Len(s)
    THEN Find(s, i + 1, {"*/"})
    ELSE i - 1

\* re.sub from index i on: the text up to the next match is kept
RECURSIVE PreprocessFrom(_, _)
PreprocessFrom(s, i) ==
    LET j == Least({k \in i..Len(s) : Removed(s, k) >= k} \cup {Len(s) + 1})
    IN  IF j > Len(s) THEN SubSeq(s, i, Len(s))
        ELSE SubSeq(s, i, j - 1) \o PreprocessFrom(s, Removed(s, j) + 1)

ctypes_preprocess(s) == PreprocessFrom(s, 1)

(***************************************************************************)
(* Layouts.  A ctypes type object is a record: base is the name of the     *)
(* ctypes class at the bottom ("c_int", ...), "None" for Python's None,    *)
(* "str" for a Python string left in the mapping (name holds the string),  *)
(* "Structure" or "CFuncPtr" for a class created by type(); id is the      *)
(* identity of a created class (0 for the built-in ones); fields holds the *)
(* (name, type) pairs of _fields_ (for a CFuncPtr: the result type under   *)
(* the name <<>> followed by the argument types); wrap lists, innermost    *)
(* first, the ctypes.POINTER and Array derivations applied on top.         *)
(***************************************************************************)
Prim(b) == [base |-> b, id |-> 0, name |-> <<>>, fields |-> <<>>, wrap |-> <<>>]

PyNone == Prim("None")

PyStr(s) == [base |-> "str", id |-> 0, name |-> s, fields |-> <<>>, wrap |-> <<>>]

\* ctypes.POINTER(t)
POINTER(t) == [t EXCEPT !.wrap = Append(@, <<"POINTER", 0>>)]

\* t * n
ArrayOf(t, n) == [t EXCEPT !.wrap = Append(@, <<"Array", n>>)]

RECURSIVE PointerN(_, _)
PointerN(t, n) == IF n = 0 THEN t ELSE PointerN(POINTER(t), n - 1)

\* type(name, (ctypes.Structure,), {"_fields_": fields}), the id-th class created
Structure(i, n, f) ==
    [base |-> "Structure", id |-> i, name |-> n, fields |-> f, wrap |-> <<>>]

\* type(fname, (WINFUNCTYPE(restype, *argtypes),), ...), the id-th class created
CFuncPtr(i, n, restype, args) ==
    [base |-> "CFuncPtr", id |-> i, name |-> n,
     fields |-> <<[name |-> <<>>, type |-> restype]>> \o args, wrap |-> <<>>]

ctypes_default_type_mapping ==
    (<<"char">> :> Prim("c_char")) @@
    (<<"wchar">> :> Prim("c_wchar")) @@
    (<<"short">> :> Prim("c_short")) @@
    (<<"int">> :> Prim("c_int")) @@
    (<<"long">> :> Prim("c_long")) @@
    (<<"int16">> :> Prim("c_int16")) @@
    (<<"int32">> :> Prim("c_int32")) @@
    (<<"uint16">> :> Prim("c_uint16")) @@
    (<<"uint32">> :> Prim("c_uint32")) @@
    (<<"long", " ", "long">> :> Prim("c_longlong")) @@
    (<<"unsigned", " ", "long", " ", "long">> :> Prim("c_ulonglong")) @@
    (<<"unsigned", " ", "char">> :> Prim("c_ubyte")) @@
    (<<"unsigned", " ", "wchar">> :> Prim("c_ushort")) @@
    (<<"unsigned", " ", "short">> :> Prim("c_ushort")) @@
    (<<"unsigned", " ", "int">> :> Prim("c_uint")) @@
    (<<"unsigned", " ", "long">> :> Prim("c_ulong")) @@
    (<<"unsigned">> :> PyStr(<<"unsigned", " ", "int">>)) @@
    (<<"float">> :> Prim("c_float")) @@
    (<<"double">> :> Prim("c_double")) @@
    (<<"void">> :> PyNone) @@
    (<<"uint32_t">> :> Prim("c_uint32")) @@
    (<<"intptr_t">> :> Prim("c_ssize_t")) @@
    (<<"uintptr_t">> :> Prim("c_size_t")) @@
    (<<"charptr_t">> :> Prim("c_char_p")) @@
    (<<"wcharptr_t">> :> Prim("c_wchar_p")) @@
    (<<"voidptr_t">> :> Prim("c_void_p"))

\* d[k] = v of a Python dict
Put(d, k, v) == [x \in DOMAIN d \cup {k} |-> IF x = k THEN v ELSE d[x]]

(***************************************************************************)
(* Constant values: an int (num), a float (text holds its literal) or a    *)
(* str (text holds the string).                                            *)
(***************************************************************************)
PyInt(n) == [kind |-> "int", num |-> n, text |-> <<>>]

PyFloat(s) == [kind |-> "float", num |-> 0, text |-> s]

PyText(s) == [kind |-> "str", num |-> 0, text |-> s]

\* the decimal literals of the modelled headers, with their values
DecLits == (<<"0">> :> 0) @@ (<<"1">> :> 1) @@ (<<"2">> :> 2) @@ (<<"3">> :> 3) @@
           (<<"5">> :> 5) @@ (<<"7">> :> 7) @@ (<<"100">> :> 100) @@
           (<<"265">> :> 265) @@ (<<"1024">> :> 1024)

\* the literals only int(x, 0) accepts
HexLits == (<<"0x10">> :> 16)

FloatLits == {<<"1", ".", "5">>}

(***************************************************************************)
(* ctypes_map_type                                                         *)
(***************************************************************************)
\* the words that contain "const", with what is left of each once "const"
\* is taken out of it
WithoutConst == ("const" :> <<>>) @@ ("constA" :> <<"A">>)

\* base_type.replace("const", "") of line 647
RECURSIVE ReplaceConst(_)
ReplaceConst(base_type) ==
    IF base_type = <<>> THEN <<>>
    ELSE (IF Head(base_type) \in DOMAIN WithoutConst
          THEN WithoutConst[Head(base_type)]
          ELSE <<Head(base_type)>>) \o ReplaceConst(Tail(base_type))

\* what ctypes_map_type yields when its loop never ends
Unending == [base |-> "unending", id |-> 0, name |-> <<>>, fields |-> <<>>,
             wrap |-> <<>>]

\* the while loop of lines 652-655; v is the current value of base_type and
\* seen the names the loop has looked up: a name met again is met forever
RECURSIVE ResolveLoop(_, _, _)
ResolveLoop(type_mapping, v, seen) ==
    IF v.base = "str" /\ v.name \in DOMAIN type_mapping
    THEN IF v.name \in seen THEN Unending
         ELSE ResolveLoop(type_mapping, type_mapping[v.name], seen \cup {v.name})
    ELSE v

ctypes_map_type(type_mapping, base_type) ==
    ResolveLoop(type_mapping, PyStr(ReplaceConst(base_type)), {})

(***************************************************************************)
(* ctypes_get_or_create_type; array_size is <<>> for None.  The result is  *)
(* [err, type]: err is "" or the name of the exception raised.             *)
(***************************************************************************)
Raise(e) == [err |-> e, type |-> PyNone]

\* the function with array_size always taken as a literal: int(array_size)
ctypes_get_or_create_typeLiteral(type_mapping, constant_mapping, unsigned, base_type_name0, num_stars, array_size) ==
    LET base_type_name == IF unsigned THEN <<"unsigned", " ">> \o base_type_name0
                          ELSE base_type_name0
        ftype0 == ctypes_map_type(type_mapping, base_type_name)
        inner == IF ftype0 = Prim("c_char") THEN Prim("c_char_p")
                 ELSE IF ftype0 = Prim("c_wchar") THEN Prim("c_wchar_p")
                 ELSE IF ftype0 = PyNone THEN Prim("c_void_p")
                 ELSE POINTER(ftype0)
        ftype1 == IF num_stars > 0 THEN PointerN(inner, num_stars - 1) ELSE ftype0
        size == IF array_size \in DOMAIN DecLits THEN PyInt(DecLits[array_size])
                ELSE PyText(array_size)
    IN  IF base_type_name \notin DOMAIN type_mapping THEN Raise("ValueError")
        \* the call does not return
        ELSE IF ftype0 = Unending THEN Raise("unending")
        ELSE IF array_size = <<>> THEN [err |-> "", type |-> ftype1]
        \* int() of a non-decimal text
        ELSE IF size.kind = "str" THEN Raise("ValueError")
        \* None * n, or a sequence repetition count that is not an int
        ELSE IF ftype1 = PyNone \/ size.kind # "int" THEN Raise("TypeError")
        ELSE IF size.num < 0 THEN Raise("ValueError")
        ELSE [err |-> "", type |-> ArrayOf(ftype1, size.num)]

ctypes_get_or_create_type(type_mapping, constant_mapping, unsigned, base_type_name0, num_stars, array_size) ==
    LET base_type_name == IF unsigned THEN <<"unsigned", " ">> \o base_type_name0
                          ELSE base_type_name0
        ftype0 == ctypes_map_type(type_mapping, base_type_name)
        inner == IF ftype0 = Prim("c_char") THEN Prim("c_char_p")
                 ELSE IF ftype0 = Prim("c_wchar") THEN Prim("c_wchar_p")
                 ELSE IF ftype0 = PyNone THEN Prim("c_void_p")
                 ELSE POINTER(ftype0)
        ftype1 == IF num_stars > 0 THEN PointerN(inner, num_stars - 1) ELSE ftype0
        size == IF array_size \in DOMAIN constant_mapping
                THEN constant_mapping[array_size]
                ELSE IF array_size \in DOMAIN DecLits THEN PyInt(DecLits[array_size])
                ELSE PyText(array_size)
    IN  IF base_type_name \notin DOMAIN type_mapping THEN Raise("ValueError")
        \* the call does not return
        ELSE IF ftype0 = Unending THEN Raise("unending")
        ELSE IF array_size = <<>> THEN [err |-> "", type |-> ftype1]
        \* int() of a non-decimal text
        ELSE IF array_size \notin DOMAIN constant_mapping /\ size.kind = "str"
        THEN Raise("ValueError")
        \* None * n, or a sequence repetition count that is not an int
        ELSE IF ftype1 = PyNone \/ size.kind # "int" THEN Raise("TypeError")
        ELSE IF size.num < 0 THEN Raise("ValueError")
        ELSE [err |-> "", type |-> ArrayOf(ftype1, size.num)]

(***************************************************************************)
(* ctypes_parse_fields                                                     *)
(***************************************************************************)
Qualifiers == {"const", "signed", "unsigned", "volatile", "CONST"}

\* the indexes of the words of the run  \w+(\s+\w+)*  that starts at i
RECURSIVE WordRun(_, _)
WordRun(f, i) ==
    IF i <= Len(f) /\ IsWord(f[i])
    THEN LET j == SkipSpace(f, i + 1)
         IN  IF j > i + 1 THEN <<i>> \o WordRun(f, j) ELSE <<i>>
    ELSE <<>>

\* index of the first lexeme at or after i that is neither "*" nor whitespace
SkipStars(f, i) == Skip(f, i, {"*", " ", "\n"})

\* the end (index of the last lexeme) of  (\s*,\s*([*]|\s+)*\w+)*  matched from i + 1
RECURSIVE MoreNames(_, _)
MoreNames(f, i) ==
    LET c == SkipSpace(f, i + 1)
        w == SkipStars(f, c + 1)
    IN  IF c <= Len(f) /\ f[c] = "," /\ w <= Len(f) /\ IsWord(f[w])
        THEN MoreNames(f, w)
        ELSE i

\* the number of leading words of the run that are qualifiers
RECURSIVE LeadingQualifiers(_, _, _)
LeadingQualifiers(f, run, k) ==
    IF k <= Len(run) /\ f[run[k]] \in Qualifiers
    THEN LeadingQualifiers(f, run, k + 1)
    ELSE k - 1

Min(a, b) == IF a < b THEN a ELSE b

NoField == [m |-> FALSE, unsigned |-> FALSE, type |-> <<>>, name |-> <<>>,
            arraysize |-> <<>>]

\* re.match(field_pattern, field, re.VERBOSE) on a stripped, non-empty field
MatchField(f) ==
    LET \* (\s*\[\s*(?P<arraysize>\w+)\s*\]\s*)?$ from b, after the names
        Closed(run, ntype, nq, last, b, sz, cl) ==
            IF b > Len(f) \/ (/\ f[b] = "["
                              /\ sz <= Len(f) /\ IsWord(f[sz])
                              /\ cl <= Len(f) /\ f[cl] = "]"
                              /\ SkipSpace(f, cl + 1) > Len(f))
            THEN [m |-> TRUE,
                  unsigned |-> \E q \in 1..nq : f[run[q]] = "unsigned",
                  type |-> SubSeq(f, run[nq + 1], run[ntype]),
                  name |-> SubSeq(f, run[ntype] + 1, last),
                  arraysize |-> IF b > Len(f) THEN <<>> ELSE <<f[sz]>>]
            ELSE NoField
        Sized(run, ntype, nq, last, b, sz) ==
            Closed(run, ntype, nq, last, b, sz, SkipSpace(f, sz + 1))
        Suffix(run, ntype, nq, last, b) ==
            Sized(run, ntype, nq, last, b, SkipSpace(f, b + 1))
        Named(run, ntype, nq, last) ==
            Suffix(run, ntype, nq, last, SkipSpace(f, last + 1))
        \* a star follows the last word of the run: every word of the run
        \* belongs to qualifiers and type; otherwise the last word is the
        \* first declarator
        Typed(run, k, starred, d1) ==
            IF (IF starred THEN k ELSE k - 1) >= 1
               /\ (starred => d1 <= Len(f) /\ IsWord(f[d1]))
            THEN Named(run, IF starred THEN k ELSE k - 1,
                       Min(LeadingQualifiers(f, run, 1), (IF starred THEN k ELSE k - 1) - 1),
                       MoreNames(f, IF starred THEN d1 ELSE run[k]))
            ELSE NoField
        Starred(run, k, after) ==
            Typed(run, k, after <= Len(f) /\ f[after] = "*", SkipStars(f, after))
        Words(run) ==
            IF run = <<>> THEN NoField
            ELSE Starred(run, Len(run), SkipSpace(f, run[Len(run)] + 1))
    IN  Words(WordRun(f, 1))

\* the one-character words: CPython keeps one shared object for each
OneCharWords == {<<"a">>, <<"b">>, <<"c">>, <<"x">>}

\* field_name is field_names[-1], for the i-th declarator: replace() and
\* strip() return their argument itself when they change nothing, so the
\* cleaned name is the list element only when the element has no star and
\* no blank around it; equal one-character strings are one object
IsLastName(field_names, i) ==
    LET raw == field_names[i]
        cleaned == Strip(Remove(raw, "*"))
        lastraw == field_names[Len(field_names)]
    IN  /\ cleaned = lastraw
        /\ \/ i = Len(field_names) /\ cleaned = raw
           \/ cleaned \in OneCharWords

\* ctypes_fields.append of the fields, ahead of those of the iterations that
\* follow, unless one of these raises
Extend(fields, rest) ==
    IF rest.err # "" THEN rest
    ELSE [err |-> "", fields |-> fields \o rest.fields]

\* the loop of lines 781-794 over field_names[i..]
RECURSIVE FieldNames(_, _, _, _, _)
FieldNames(m, field_names, i, type_mapping, constant_mapping) ==
    IF i > Len(field_names) THEN [err |-> "", fields |-> <<>>]
    ELSE LET Added(t) ==
                 IF t.err # "" THEN [err |-> t.err, fields |-> <<>>]
                 ELSE Extend(<<[name |-> Strip(Remove(field_names[i], "*")),
                                type |-> t.type]>>,
                             FieldNames(m, field_names, i + 1, type_mapping,
                                        constant_mapping))
         IN  Added(ctypes_get_or_create_type(type_mapping, constant_mapping,
                       m.unsigned, Strip(m.type), Count(field_names[i], "*"),
                       IF IsLastName(field_names, i) THEN m.arraysize ELSE <<>>))

\* lines 772-794 for the match m of one field
FieldDeclarators(m, type_mapping, constant_mapping) ==
    IF ~m.m THEN [err |-> "ValueError", fields |-> <<>>]
    ELSE FieldNames(m, Split(Strip(m.name), ","), 1, type_mapping, constant_mapping)

\* the loop of lines 764-794 over fields[i..]
RECURSIVE FieldLoop(_, _, _, _)
FieldLoop(fields, i, type_mapping, constant_mapping) ==
    IF i > Len(fields) \/ Strip(fields[i]) = <<>> THEN [err |-> "", fields |-> <<>>]
    ELSE LET Declared(these) ==
                 IF these.err # "" THEN these
                 ELSE Extend(these.fields,
                             FieldLoop(fields, i + 1, type_mapping, constant_mapping))
         IN  Declared(FieldDeclarators(MatchField(Strip(fields[i])),
                                       type_mapping, constant_mapping))

ctypes_parse_fields(s, type_mapping, constant_mapping, field_separator) ==
    FieldLoop(Split(s, field_separator), 1, type_mapping, constant_mapping)

(***************************************************************************)
(* The sub-parsers.  T is the record of the tables a parser may change:    *)
(* type_mapping, constant_mapping, proto_mapping, and classes, the number  *)
(* of classes created by type() so far.  A parser returns [m, end, err, T]:*)
(* m is FALSE for a None result, end is m.end(), err names the exception   *)
(* raised ("" if none) and T holds the tables as the call leaves them.     *)
(* struct_pack is never passed by CTypesHelper and is left out.            *)
(***************************************************************************)
None(T) == [m |-> FALSE, end |-> 0, err |-> "", T |-> T]

\* re.match returning None
NoMatch == [m |-> FALSE]

Matched(e, T) == [m |-> TRUE, end |-> e, err |-> "", T |-> T]

Raised(e, T) == [m |-> TRUE, end |-> 0, err |-> e, T |-> T]

\* for name, type in ctypes_fields: mapping[name] = type
RECURSIVE PutAll(_, _, _)
PutAll(mapping, fields, i) ==
    IF i > Len(fields) THEN mapping
    ELSE PutAll(Put(mapping, fields[i].name, fields[i].type), fields, i + 1)

\* re.match of line 812: tdef is group 1, stripped
TypedefPattern(s) ==
    LET Declaration(i0, i1, j) ==
            IF /\ i0 <= Len(s) /\ s[i0] = "typedef"
               /\ i1 > i0 + 1
               /\ j <= Len(s) /\ s[j] = ";"
            THEN [m |-> TRUE, tdef |-> Strip(SubSeq(s, i1, j)),
                  end |-> SkipSpace(s, j + 1) - 1]
            ELSE NoMatch
        Keyword(i0, i1) == Declaration(i0, i1, Find(s, i1, {"(", "{", ";"}))
        Start(i0) == Keyword(i0, SkipSpace(s, i0 + 1))
    IN  Start(SkipSpace(s, 1))

\* lines 820-821 for the fields f of the typedef
TypedefRegistered(T, m, f) ==
    IF f.err # "" THEN Raised(f.err, T)
    ELSE Matched(m.end, [T EXCEPT !.type_mapping = PutAll(@, f.fields, 1)])

\* lines 813-819 for the match m
TypedefFields(T, m) ==
    IF ~m.m THEN None(T)
    ELSE TypedefRegistered(T, m, ctypes_parse_fields(m.tdef, T.type_mapping,
                                                     T.constant_mapping, ";"))

ctypes_parse_typedef(s, T) == TypedefFields(T, TypedefPattern(s))

(***************************************************************************)
(* Order of Python strings, on lexeme sequences: "\n" < " " < "*" < every  *)
(* word character, and words compare as WordOrder lists them.              *)
(***************************************************************************)
WordOrder == <<"A", "B", "FILETIME", "Foo", "PFILETIME", "PFoo", "PPFoo",
               "Tag", "U", "_FILETIME", "a", "b", "u">>

LexemeRank(t) ==
    IF t = "\n" THEN 0 ELSE IF t = " " THEN 1 ELSE IF t = "*" THEN 2
    ELSE IF \E i \in 1..Len(WordOrder) : WordOrder[i] = t
    THEN 2 + (CHOOSE i \in 1..Len(WordOrder) : WordOrder[i] = t)
    ELSE 3 + Len(WordOrder)

\* a < b
RECURSIVE StrLess(_, _)
StrLess(a, b) ==
    IF b = <<>> THEN FALSE
    ELSE IF a = <<>> THEN TRUE
    ELSE IF a[1] = b[1] THEN StrLess(Tail(a), Tail(b))
    ELSE LexemeRank(a[1]) < LexemeRank(b[1])

\* l without its i-th element
Without(l, i) == SubSeq(l, 1, i - 1) \o SubSeq(l, i + 1, Len(l))

\* sorted(l, reverse=True)
RECURSIVE SortedReverse(_)
SortedReverse(l) ==
    IF l = <<>> THEN <<>>
    ELSE LET i == CHOOSE i \in 1..Len(l) :
                     /\ \A j \in 1..Len(l) : ~StrLess(l[i], l[j])
                     /\ \A j \in 1..(i - 1) : l[j] # l[i]
         IN  <<l[i]>> \o SortedReverse(Without(l, i))

\* a value that ctypes does not take as the type of a field or an argument:
\* None, or a type name left as a string
NotCType(t) == t = PyNone \/ (t.base = "str" /\ t.wrap = <<>>)

\* the loop of lines 951-974 over names[i..]; base_type is PyNone until created
RECURSIVE StructNames(_, _, _, _, _)
StructNames(names, i, base_type, ctypes_fields, T) ==
    IF i > Len(names) THEN Matched(0, T)
    ELSE LET num_stars == Count(names[i], "*")
             struct_name == Strip(Remove(names[i], "*"))
             base_type_name == IF num_stars = 0 THEN struct_name
                               ELSE <<"Struct_">> \o struct_name
             create == base_type = PyNone
             base == IF create
                     THEN Structure(T.classes + 1, base_type_name, ctypes_fields)
                     ELSE base_type
             T1 == [T EXCEPT !.classes = IF create THEN @ + 1 ELSE @,
                             !.type_mapping = Put(@, struct_name,
                                                  PointerN(base, num_stars))]
         IN  \* ctypes rejects a field whose type is None
             IF create /\ \E k \in 1..Len(ctypes_fields) :
                              NotCType(ctypes_fields[k].type)
             THEN Raised("TypeError", T)
             ELSE StructNames(names, i + 1, base, ctypes_fields, T1)

\* re.match of line 912: sname is the tag as a list of candidates, sbody
\* the text between the braces and tnames the text before the ";", which
\* is None (hasTnames FALSE) when the group is empty
StructPattern(s) ==
    LET Declaration(sname, open, close, n0, semi) ==
            IF open <= Len(s) /\ s[open] = "{" /\ close <= Len(s) /\ semi <= Len(s)
            THEN [m |-> TRUE, sname |-> sname,
                  sbody |-> SubSeq(s, open + 1, close - 1),
                  hasTnames |-> semi > n0,
                  tnames |-> SubSeq(s, n0, semi - 1),
                  end |-> SkipSpace(s, semi + 1) - 1]
            ELSE NoMatch
        Names(sname, open, close, n0) ==
            Declaration(sname, open, close, n0, Find(s, n0, {";"}))
        Braces(sname, open, close) ==
            Names(sname, open, close, SkipSpace(s, close + 1))
        Tag(sname, open) == Braces(sname, open, Find(s, open + 1, {"}"}))
        \* (\s+(?P<sname>\w+))?, t being the lexeme after the blanks
        Keyword(i1, t) ==
            IF t > i1 + 1 /\ t <= Len(s) /\ IsWord(s[t])
            THEN Tag(<< <<s[t]>> >>, SkipSpace(s, t + 1))
            ELSE Tag(<<>>, t)
        Struct(i1) ==
            IF i1 <= Len(s) /\ s[i1] = "struct" THEN Keyword(i1, SkipSpace(s, i1 + 1))
            ELSE NoMatch
        Typedef(i0, i1) == Struct(IF i1 > i0 + 1 THEN i1 ELSE Len(s) + 1)
        Start(i0) ==
            IF i0 <= Len(s) /\ s[i0] = "typedef" THEN Typedef(i0, SkipSpace(s, i0 + 1))
            ELSE Struct(i0)
    IN  Start(SkipSpace(s, 1))

\* the return of line 978
StructNamed(m, r) == IF r.err # "" THEN r ELSE Matched(m.end, r.T)

\* lines 932-974 with the names registered, for a struct without fields,
\* before the fields are known to be supported
StructCreatedNamesFirst(T, m, f) ==
    IF f.err # ""
    THEN Raised(f.err, StructNames(SortedReverse(Split(m.tnames, ",") \o m.sname),
                                   1, PyNone, <<>>, T).T)
    ELSE StructNamed(m, StructNames(SortedReverse(Split(m.tnames, ",") \o m.sname),
                                    1, PyNone, f.fields, T))

\* lines 932-974 for the fields f of the body
StructCreated(T, m, f) ==
    IF f.err # "" THEN Raised(f.err, T)
    ELSE StructNamed(m, StructNames(SortedReverse(Split(m.tnames, ",") \o m.sname),
                                    1, PyNone, f.fields, T))

\* lines 913-931 for the match m
StructFields(T, m) ==
    IF ~m.m THEN None(T)
    \* m.groupdict().get("tnames", "") is None: None has no split
    ELSE IF ~m.hasTnames THEN Raised("AttributeError", T)
    ELSE StructCreated(T, m, ctypes_parse_fields(m.sbody, T.type_mapping,
                                                 T.constant_mapping, ";"))

ctypes_parse_struct(s, T) == StructFields(T, StructPattern(s))

Negated(v) == Len(v) = 2 /\ v[1] = "-"

\* int(dvalue, 0), then float(dvalue), then the string itself
DefineValue(dvalue) ==
    LET lits == DecLits @@ HexLits
        w == IF Negated(dvalue) THEN <<dvalue[2]>> ELSE dvalue
    IN  IF w \in DOMAIN lits
        THEN PyInt(IF Negated(dvalue) THEN 0 - lits[w] ELSE lits[w])
        ELSE IF dvalue \in FloatLits THEN PyFloat(dvalue)
        ELSE PyText(dvalue)

\* re.match of line 1002: dname is group 1 and dvalue group 2, stripped
DefinePattern(s) ==
    LET Value(i2, i3, eol) ==
            [m |-> TRUE, dname |-> <<s[i2]>>,
             dvalue |-> Strip(SubSeq(s, i3, eol - 1)), end |-> eol - 1]
        Name(i1, i2, i3) ==
            IF i2 > i1 + 1 /\ i2 <= Len(s) /\ IsWord(s[i2]) /\ i3 > i2 + 1
            THEN Value(i2, i3, Find(s, i3, {"\n"}))
            ELSE NoMatch
        Define(i1, i2) == Name(i1, i2, SkipSpace(s, i2 + 1))
        Hash(i0, i1) ==
            IF i0 <= Len(s) /\ s[i0] = "#" /\ i1 <= Len(s) /\ s[i1] = "define"
            THEN Define(i1, SkipSpace(s, i1 + 1))
            ELSE NoMatch
        Start(i0) == Hash(i0, SkipSpace(s, i0 + 1))
    IN  Start(SkipSpace(s, 1))

\* the value stored as written, an alias left for a later lookup
DefineRegisteredUnresolved(T, m, dvalue) ==
    Matched(m.end, [T EXCEPT !.constant_mapping = Put(@, m.dname, dvalue)])

\* constant_mapping.get(dvalue, dvalue) of lines 1022-1023: only a str can
\* be a key
DefineRegistered(T, m, dvalue) ==
    Matched(m.end, [T EXCEPT !.constant_mapping =
        Put(@, m.dname,
            IF dvalue.kind = "str" /\ dvalue.text \in DOMAIN T.constant_mapping
            THEN T.constant_mapping[dvalue.text] ELSE dvalue)])

\* lines 1003-1021 for the match m
DefineConverted(T, m) ==
    IF ~m.m THEN None(T) ELSE DefineRegistered(T, m, DefineValue(m.dvalue))

ctypes_parse_define(s, T) == DefineConverted(T, DefinePattern(s))

\* [field_type for field_name, field_type in ctypes_fields], kept as fields
ArgTypes(ctypes_fields) ==
    [k \in 1..Len(ctypes_fields) |-> [name |-> <<>>, type |-> ctypes_fields[k].type]]

\* re.match of line 841 and, when it fails, of line 846: typedef tells
\* which one matched; rtype is the group with "__stdcall" removed and
\* fname the group split on blanks
FunctionPattern(s) ==
    LET \* the expression of line 846: the words of run, "(" at po, ")" at pc
        Proto(i0, run, k, po, pc) ==
            IF k >= 2 /\ po <= Len(s) /\ s[po] = "(" /\ pc < Len(s) /\ s[pc + 1] = ";"
            THEN [m |-> TRUE, typedef |-> FALSE,
                  rtype |-> Strip(Remove(SubSeq(s, i0, run[k] - 1), "__stdcall")),
                  fname |-> << <<s[run[k]]>> >>,
                  fargs |-> Strip(SubSeq(s, po + 1, pc - 1)),
                  end |-> SkipSpace(s, pc + 2) - 1]
            ELSE NoMatch
        Args(i0, run, k, po) == Proto(i0, run, k, po, Find(s, po + 1, {")"}))
        Run(i0, w0, run) ==
            Args(i0, run, Len(run),
                 IF run = <<>> THEN w0 ELSE SkipSpace(s, run[Len(run)] + 1))
        Star(i0, w0) == Run(i0, w0, WordRun(s, w0))
        Plain(i0) ==
            Star(i0, IF i0 <= Len(s) /\ s[i0] = "*" THEN SkipSpace(s, i0 + 1) ELSE i0)
        \* the expression of line 841: "(" at o1 and o2, ")" at c1 and c2
        Typedef(i0, i1, o1, c1, o2, c2, semi) ==
            IF /\ i0 <= Len(s) /\ s[i0] = "typedef"
               /\ i1 > i0 + 1
               /\ o1 <= Len(s) /\ c1 <= Len(s)
               /\ o2 <= Len(s) /\ s[o2] = "("
               /\ c2 <= Len(s)
               /\ semi <= Len(s) /\ s[semi] = ";"
            THEN [m |-> TRUE, typedef |-> TRUE,
                  rtype |-> SubSeq(s, i1, o1 - 1),
                  fname |-> SplitSpace(Strip(SubSeq(s, o1 + 1, c1 - 1))),
                  fargs |-> Strip(SubSeq(s, o2 + 1, c2 - 1)),
                  end |-> SkipSpace(s, semi + 1) - 1]
            ELSE Plain(i0)
        Close2(i0, i1, o1, c1, o2, c2) ==
            Typedef(i0, i1, o1, c1, o2, c2, SkipSpace(s, c2 + 1))
        Open2(i0, i1, o1, c1, o2) == Close2(i0, i1, o1, c1, o2, Find(s, o2 + 1, {")"}))
        Close1(i0, i1, o1, c1) == Open2(i0, i1, o1, c1, SkipSpace(s, c1 + 1))
        Open1(i0, i1, o1) == Close1(i0, i1, o1, Find(s, o1 + 1, {")"}))
        Keyword(i0, i1) == Open1(i0, i1, Find(s, i1, {"("}))
        Start(i0) == Keyword(i0, SkipSpace(s, i0 + 1))
    IN  Start(SkipSpace(s, 1))

\* ctypes.WINFUNCTYPE(ctypes_rtype, *ctypes_argtypes) of line 876
FunctionType(T, fname, ctypes_rtype, f) ==
    CFuncPtr(T.classes + 1, fname, ctypes_rtype.type, ArgTypes(f.fields))

\* lines 876-889 with every function type stored in proto_mapping
FunctionCreatedAsProto(T, m, fname, ctypes_rtype, f) ==
    IF ctypes_rtype.err # "" THEN Raised(ctypes_rtype.err, T)
    ELSE IF f.err # "" THEN Raised(f.err, T)
    ELSE IF \/ \E a \in 1..Len(f.fields) : NotCType(f.fields[a].type)
            \/ (ctypes_rtype.type # PyNone /\ NotCType(ctypes_rtype.type))
    THEN Raised("TypeError", T)
    ELSE Matched(m.end, [T EXCEPT !.classes = @ + 1, !.proto_mapping =
             Put(@, fname, FunctionType(T, fname, ctypes_rtype, f))])

\* lines 876-889 for the return type and the arguments
FunctionCreated(T, m, fname, ctypes_rtype, f) ==
    IF ctypes_rtype.err # "" THEN Raised(ctypes_rtype.err, T)
    ELSE IF f.err # "" THEN Raised(f.err, T)
    \* WINFUNCTYPE rejects an argument type that is None
    ELSE IF \/ \E a \in 1..Len(f.fields) : NotCType(f.fields[a].type)
            \/ (ctypes_rtype.type # PyNone /\ NotCType(ctypes_rtype.type))
    THEN Raised("TypeError", T)
    ELSE IF m.typedef
    THEN Matched(m.end, [T EXCEPT !.classes = @ + 1, !.type_mapping =
             Put(@, fname, FunctionType(T, fname, ctypes_rtype, f))])
    ELSE Matched(m.end, [T EXCEPT !.classes = @ + 1, !.proto_mapping =
             Put(@, fname, FunctionType(T, fname, ctypes_rtype, f))])

\* lines 848-875 for the match m
FunctionFields(T, m) ==
    IF ~m.m THEN None(T)
    \* fname.split()[-1] of an empty list
    ELSE IF m.fname = <<>> THEN Raised("IndexError", T)
    ELSE FunctionCreated(T, m, Remove(m.fname[Len(m.fname)], "*"),
             ctypes_get_or_create_type(T.type_mapping, T.constant_mapping,
                 FALSE, Strip(Remove(m.rtype, "*")), Count(m.rtype, "*"), <<>>),
             IF m.fargs = <<"void">> THEN [err |-> "", fields |-> <<>>]
             ELSE ctypes_parse_fields(m.fargs, T.type_mapping,
                                      T.constant_mapping, ","))

ctypes_parse_function(s, T) == FunctionFields(T, FunctionPattern(s))

(***************************************************************************)
(* ctypes_parse_definitions                                                *)
(***************************************************************************)
\* one iteration of the while loop of lines 1038-1068: the first parser, in
\* the order typedef, struct, define, function, that does not return None
OrFunction(s, T, d) ==
    IF d.m THEN [parser |-> "define", r |-> d]
    ELSE [parser |-> "function", r |-> ctypes_parse_function(s, T)]

OrDefine(s, T, st) ==
    IF st.m THEN [parser |-> "struct", r |-> st]
    ELSE OrFunction(s, T, ctypes_parse_define(s, T))

OrStruct(s, T, t) ==
    IF t.m THEN [parser |-> "typedef", r |-> t]
    ELSE OrDefine(s, T, ctypes_parse_struct(s, T))

\* the loop with ctypes_parse_function tried before the other three
LoopStepFunctionFirst(s, T) ==
    LET Ordered(f) ==
            IF f.m THEN [parser |-> "function", r |-> f]
            ELSE OrStruct(s, T, ctypes_parse_typedef(s, T))
    IN  Ordered(ctypes_parse_function(s, T))

LoopStep(s, T) == OrStruct(s, T, ctypes_parse_typedef(s, T))

\* the assert left out: any remainder passes
AssertParsedAnything(s) == TRUE

\* assert s.strip() == "" of line 1070
AssertParsed(s) == Strip(s) = <<>>

\* the while loop and the assert, from the remaining text s: err is "" when
\* the call returns, and s is the text left when it ended
RECURSIVE ParseLoop(_, _)
ParseLoop(s, T) ==
    LET Iteration(r) ==
            IF r.err # "" THEN [err |-> r.err, s |-> s, T |-> r.T]
            ELSE IF r.m THEN ParseLoop(Tail0(s, r.end), r.T)
            ELSE IF AssertParsed(s) THEN [err |-> "", s |-> s, T |-> T]
            ELSE [err |-> "AssertionError", s |-> s, T |-> T]
    IN  Iteration(LoopStep(s, T).r)

ctypes_parse_definitions(s, T) == ParseLoop(ctypes_preprocess(s), T)

(***************************************************************************)
(* State.  header is the text handed to the call under way and s the text  *)
(* the driver loop still has to parse; before is the value of s at the     *)
(* start of the last loop iteration and parser the sub-parser that matched *)
(* in it; pc is the position in the call and err the exception that ended  *)
(* it.  type_mapping, constant_mapping, proto_mapping are the three tables *)
(* and classes counts the classes type() has created.                      *)
(* field_separator and ctypes_fields are the argument and the result of a  *)
(* call of ctypes_parse_fields.  self_c, self_dlls and self_includes are   *)
(* the attributes of a CTypesHelper, ret the outcome of its last           *)
(* invocation, calls the number of invocations and namespaces the number   *)
(* of namespace objects created.  objects maps the identity of each        *)
(* namespace object that is still referenced to its entries, parses counts *)
(* the calls of ctypes_parse_definitions the helper has made, and threads  *)
(* holds, for each thread inside CTypesHelper.__call__, its position and   *)
(* its local variables.                                                    *)
(***************************************************************************)
VARIABLES header, s, before, parser, pc, err,
          type_mapping, constant_mapping, proto_mapping, classes,
          field_separator, ctypes_fields,
          self_c, self_dlls, self_includes, ret, calls, namespaces,
          objects, parses, threads

vars == <<header, s, before, parser, pc, err,
          type_mapping, constant_mapping, proto_mapping, classes,
          field_separator, ctypes_fields,
          self_c, self_dlls, self_includes, ret, calls, namespaces,
          objects, parses, threads>>

parserVars == <<header, s, before, parser, pc, err,
                type_mapping, constant_mapping, proto_mapping, classes,
                field_separator, ctypes_fields>>

helperVars == <<self_c, self_dlls, self_includes, ret, calls, namespaces,
                objects, parses, threads>>

\* the tables of the state, as the parsers take them
Tables == [type_mapping |-> type_mapping, constant_mapping |-> constant_mapping,
           proto_mapping |-> proto_mapping, classes |-> classes]

\* types, consts, protos = dict(ctypes_default_type_mapping), {}, {}
FreshTables == [type_mapping |-> ctypes_default_type_mapping,
                constant_mapping |-> <<>>, proto_mapping |-> <<>>, classes |-> 0]

SetTables(T) ==
    /\ type_mapping' = T.type_mapping
    /\ constant_mapping' = T.constant_mapping
    /\ proto_mapping' = T.proto_mapping
    /\ classes' = T.classes

\* self.c is None
NoNamespace == [isNone |-> TRUE, id |-> 0, ns |-> <<>>]

\* no invocation yet
NoOutcome == [kind |-> "", err |-> "", c |-> NoNamespace]

\* no CTypesHelper exists
HelperIdle ==
    /\ self_c = NoNamespace
    /\ self_dlls = <<>>
    /\ self_includes = <<>>
    /\ ret = NoOutcome
    /\ calls = 0
    /\ namespaces = 0
    /\ objects = <<>>
    /\ parses = 0
    /\ threads = <<>>

(***************************************************************************)
(* The declarations the modelled headers are made of                       *)
(***************************************************************************)
\* typedef int A;\n
DeclTypedef ==
    <<"typedef", " ", "int", " ", "A", ";", "\n">>

\* typedef struct _FILETIME { int a, b[2]; } FILETIME, *PFILETIME;\n
DeclStruct ==
    <<"typedef", " ", "struct", " ", "_FILETIME", " ", "{", " ", "int", " ", "a",
      ",", " ", "b", "[", "2", "]", ";", " ", "}", " ", "FILETIME", ",", " ", "*",
      "PFILETIME", ";", "\n">>

\* #define MAX 3\n
DeclDefine ==
    <<"#", "define", " ", "MAX", " ", "3", "\n">>

\* #define GUARD\n
DeclGuard ==
    <<"#", "define", " ", "GUARD", "\n">>

\* union U { int a; };\n
DeclUnion ==
    <<"union", " ", "U", " ", "{", " ", "int", " ", "a", ";", " ", "}", ";", "\n">>

\* typedef int constA;\n
DeclConstA ==
    <<"typedef", " ", "int", " ", "constA", ";", "\n">>

\* typedef constA A;\n
DeclAliasA ==
    <<"typedef", " ", "constA", " ", "A", ";", "\n">>

\* typedef int wchar;\n
DeclSeeded ==
    <<"typedef", " ", "int", " ", "wchar", ";", "\n">>

\* int __stdcall f(A x);\n
DeclProto ==
    <<"int", " ", "__stdcall", " ", "f", "(", "A", " ", "x", ")", ";", "\n">>

\* typedef int (__stdcall *cb)(int x);\n
DeclCallback ==
    <<"typedef", " ", "int", " ", "(", "__stdcall", " ", "*", "cb", ")", "(", "int",
      " ", "x", ")", ";", "\n">>

\* #ifdef X // c\n
DeclDirective ==
    <<"#", "ifdef", " ", "X", " ", "//", " ", "c", "\n">>

\* }\n
DeclCloseBrace ==
    <<"}", "\n">>

\* typedef struct _S { int (__stdcall *f)(int x); } S;\n
DeclFieldCallback ==
    <<"typedef", " ", "struct", " ", "_S", " ", "{", " ", "int", " ", "(",
      "__stdcall", " ", "*", "f", ")", "(", "int", " ", "x", ")", ";", " ", "}",
      " ", "S", ";", "\n">>

Decls == {DeclTypedef, DeclStruct, DeclDefine, DeclGuard, DeclUnion, DeclProto,
          DeclCallback, DeclDirective, DeclCloseBrace, DeclConstA, DeclAliasA,
          DeclSeeded, DeclFieldCallback}

\* the supported declarations among them
ValidDecls == {DeclTypedef, DeclStruct, DeclDefine, DeclGuard, DeclProto,
               DeclCallback, DeclDirective}

\* the number of declarations of a header
MaxDecls == 3

RECURSIVE Concat(_)
Concat(q) == IF q = <<>> THEN <<>> ELSE Head(q) \o Concat(Tail(q))

DeclLists == UNION {[1..n -> Decls] : n \in 0..MaxDecls}

Headers == {Concat(q) : q \in DeclLists}

(***************************************************************************)
(* ctypes_parse_definitions, one loop iteration at a time                  *)
(***************************************************************************)
InitDefinitions ==
    /\ header \in Headers
    /\ s = header
    /\ before = <<>>
    /\ parser = ""
    /\ pc = "preprocess"
    /\ err = ""
    /\ type_mapping = FreshTables.type_mapping
    /\ constant_mapping = FreshTables.constant_mapping
    /\ proto_mapping = FreshTables.proto_mapping
    /\ classes = FreshTables.classes
    /\ field_separator = ""
    /\ ctypes_fields = <<>>
    /\ HelperIdle

\* s = ctypes_preprocess(s)
Preprocess ==
    /\ pc = "preprocess"
    /\ s' = ctypes_preprocess(s)
    /\ pc' = "loop"
    /\ UNCHANGED <<header, before, parser, err, field_separator, ctypes_fields,
                   type_mapping, constant_mapping, proto_mapping, classes>>
    /\ UNCHANGED helperVars

\* an iteration in which the sub-parser p matches: s = s[m.end():]; continue
Match(p) ==
    /\ pc = "loop"
    /\ LET Matches(step) ==
               /\ step.parser = p
               /\ step.r.m
               /\ step.r.err = ""
               /\ s' = Tail0(s, step.r.end)
               /\ SetTables(step.r.T)
       IN  Matches(LoopStep(s, Tables))
    /\ before' = s
    /\ parser' = p
    /\ UNCHANGED <<header, pc, err, field_separator, ctypes_fields>>
    /\ UNCHANGED helperVars

TypedefMatch == Match("typedef")

StructMatch == Match("struct")

DefineMatch == Match("define")

FunctionMatch == Match("function")

\* an iteration in which a sub-parser raises: the exception leaves the call
ParserRaises ==
    /\ pc = "loop"
    /\ LET Raises(step) ==
               /\ step.r.err \notin {"", "unending"}
               /\ err' = step.r.err
               /\ parser' = step.parser
               /\ SetTables(step.r.T)
       IN  Raises(LoopStep(s, Tables))
    /\ before' = s
    /\ pc' = "raised"
    /\ UNCHANGED <<header, s, field_separator, ctypes_fields>>
    /\ UNCHANGED helperVars

\* an iteration in which a sub-parser does not return: the loop of
\* ctypes_map_type goes on for ever
ParserHangs ==
    /\ pc = "loop"
    /\ LET Hangs(step) ==
               /\ step.r.err = "unending"
               /\ parser' = step.parser
       IN  Hangs(LoopStep(s, Tables))
    /\ before' = s
    /\ pc' = "unending"
    /\ UNCHANGED <<header, s, err, field_separator, ctypes_fields,
                   type_mapping, constant_mapping, proto_mapping, classes>>
    /\ UNCHANGED helperVars

\* the iteration in which every sub-parser returns None: break, then the
\* assert of line 1070, whose message carries s
LoopExit ==
    /\ pc = "loop"
    /\ LET Breaks(r) == ~r.m /\ r.err = ""
       IN  Breaks(LoopStep(s, Tables).r)
    /\ IF AssertParsed(s)
       THEN pc' = "returned" /\ err' = ""
       ELSE pc' = "raised" /\ err' = "AssertionError"
    /\ before' = s
    /\ parser' = ""
    /\ UNCHANGED <<header, s, field_separator, ctypes_fields,
                   type_mapping, constant_mapping, proto_mapping, classes>>
    /\ UNCHANGED helperVars

NextDefinitions ==
    \/ Preprocess
    \/ TypedefMatch
    \/ StructMatch
    \/ DefineMatch
    \/ FunctionMatch
    \/ ParserRaises
    \/ ParserHangs
    \/ LoopExit

SpecDefinitions == InitDefinitions /\ [][NextDefinitions]_vars

(***************************************************************************)
(* ctypes_parse_definitions on headers made of #define lines               *)
(***************************************************************************)
\* #define A 5\n
DeclA5 ==
    <<"#", "define", " ", "A", " ", "5", "\n">>

\* #define B A\n
DeclBA ==
    <<"#", "define", " ", "B", " ", "A", "\n">>

\* #define A 7\n
DeclA7 ==
    <<"#", "define", " ", "A", " ", "7", "\n">>

\* #define A B\n
DeclAB ==
    <<"#", "define", " ", "A", " ", "B", "\n">>

DefineDecls == {DeclA5, DeclBA, DeclA7, DeclAB, DeclGuard}

\* the number of #define lines of a header
MaxDefines == 4

DefineHeaders == {Concat(q) : q \in UNION {[1..n -> DefineDecls] : n \in 0..MaxDefines}}

InitDefines ==
    /\ header \in DefineHeaders
    /\ s = header
    /\ before = <<>>
    /\ parser = ""
    /\ pc = "preprocess"
    /\ err = ""
    /\ type_mapping = FreshTables.type_mapping
    /\ constant_mapping = FreshTables.constant_mapping
    /\ proto_mapping = FreshTables.proto_mapping
    /\ classes = FreshTables.classes
    /\ field_separator = ""
    /\ ctypes_fields = <<>>
    /\ HelperIdle

NextDefines ==
    \/ Preprocess
    \/ DefineMatch
    \/ LoopExit

SpecDefines == InitDefines /\ [][NextDefines]_vars

(***************************************************************************)
(* ctypes_parse_definitions on #define lines followed by the typedef of an *)
(* array                                                                   *)
(***************************************************************************)
\* typedef char P[x];\n
ArrayTypedef(x) ==
    <<"typedef", " ", "char", " ", "P", "[", x, "]", ";", "\n">>

\* the sizes written between the brackets
ArraySizes == {"A", "B", "5", "7"}

\* the number of #define lines before the typedef
MaxArrayDefines == 2

ArrayHeaders ==
    {Concat(q) \o ArrayTypedef(x) :
        q \in UNION {[1..n -> DefineDecls] : n \in 0..MaxArrayDefines},
        x \in ArraySizes}

InitArray ==
    /\ header \in ArrayHeaders
    /\ s = header
    /\ before = <<>>
    /\ parser = ""
    /\ pc = "preprocess"
    /\ err = ""
    /\ type_mapping = FreshTables.type_mapping
    /\ constant_mapping = FreshTables.constant_mapping
    /\ proto_mapping = FreshTables.proto_mapping
    /\ classes = FreshTables.classes
    /\ field_separator = ""
    /\ ctypes_fields = <<>>
    /\ HelperIdle

NextArray ==
    \/ Preprocess
    \/ DefineMatch
    \/ TypedefMatch
    \/ ParserRaises
    \/ LoopExit

SpecArray == InitArray /\ [][NextArray]_vars

(***************************************************************************)
(* A call of ctypes_preprocess on a header                                 *)
(***************************************************************************)
\* typedef struct _S { int a; }\n
LineStructBody ==
    <<"typedef", " ", "struct", " ", "_S", " ", "{", " ", "int", " ", "a", ";", " ",
      "}", "\n">>

\* S;\n
LineAlias ==
    <<"S", ";", "\n">>

\*  }\n
LineIndentedBrace ==
    <<" ", "}", "\n">>

\* extern "C" {\n
LineExtern ==
    <<"extern", " ", "\"", "C", "\"", " ", "{", "\n">>

\* /* c */\n
LineComment ==
    <<"/*", " ", "c", " ", "*/", "\n">>

PreprocessLines == {LineStructBody, LineAlias, LineIndentedBrace, LineExtern,
                    LineComment, DeclCloseBrace, DeclDirective, DeclTypedef}

\* the number of lines of a header
MaxLines == 3

PreprocessHeaders ==
    {Concat(q) : q \in UNION {[1..n -> PreprocessLines] : n \in 0..MaxLines}}

InitPreprocess ==
    /\ header \in PreprocessHeaders
    /\ s = header
    /\ before = <<>>
    /\ parser = ""
    /\ pc = "preprocess"
    /\ err = ""
    /\ type_mapping = FreshTables.type_mapping
    /\ constant_mapping = FreshTables.constant_mapping
    /\ proto_mapping = FreshTables.proto_mapping
    /\ classes = FreshTables.classes
    /\ field_separator = ""
    /\ ctypes_fields = <<>>
    /\ HelperIdle

NextPreprocess == Preprocess

SpecPreprocess == InitPreprocess /\ [][NextPreprocess]_vars

(***************************************************************************)
(* A call of ctypes_parse_fields on a field list                           *)
(***************************************************************************)
\* the number of stars of a declarator
MaxStars == 2

\* the number of elements of a field list
MaxFields == 2

RECURSIVE Stars(_)
Stars(n) == IF n = 0 THEN <<>> ELSE <<"*">> \o Stars(n - 1)

FieldQualifiers == {<<>>, <<"unsigned", " ">>, <<"const", " ">>}

FieldTypes == {<<"int">>, <<"char">>, <<"void">>, <<"B">>}

\* the first declarator: "type a", "type* a", "type *a", ...
FirstNames == {<<" ", "a">>}
              \cup {Stars(n) \o <<" ", "a">> : n \in 1..MaxStars}
              \cup {<<" ">> \o Stars(n) \o <<"a">> : n \in 1..MaxStars}

MoreFieldNames == {<<>>, <<",", "b">>, <<",", " ", "b">>, <<",", "*", "b">>,
                   <<",", "a">>, <<",", "cd">>}

ArraySuffixes == {<<>>, <<"[", "3", "]">>, <<"[", "MAX", "]">>,
                  <<" ", "[", "0x10", "]">>}

FieldElements ==
    {q \o ty \o n1 \o n2 \o a : q \in FieldQualifiers, ty \in FieldTypes,
        n1 \in FirstNames, n2 \in MoreFieldNames, a \in ArraySuffixes}

\* the elements the longer lists are made of
ListElements == {<<"int", " ", "a">>, <<" ", "char", "*", " ", "p", "[", "3", "]">>,
                 <<"B", " ", "b">>, <<"int">>, <<>>, <<" ">>}

RECURSIVE Join(_, _)
Join(q, sep) ==
    IF Len(q) <= 1 THEN Concat(q) ELSE Head(q) \o <<sep>> \o Join(Tail(q), sep)

FieldTexts ==
    FieldElements
    \cup {e \o <<";">> : e \in FieldElements}
    \cup {Join(q, sep) : q \in UNION {[1..n -> ListElements] : n \in 2..MaxFields},
                         sep \in {";", ","}}

\* constant_mapping of the calls: #define MAX 3
FieldConstants == <<"MAX">> :> PyInt(3)

InitFields ==
    /\ header \in FieldTexts
    /\ s = header
    /\ before = <<>>
    /\ parser = ""
    /\ pc = "call"
    /\ err = ""
    /\ type_mapping = ctypes_default_type_mapping
    /\ constant_mapping = FieldConstants
    /\ proto_mapping = <<>>
    /\ classes = 0
    /\ field_separator = ""
    /\ ctypes_fields = <<>>
    /\ HelperIdle

\* ctypes_fields = ctypes_parse_fields(s, type_mapping, constant_mapping, sep)
ParseFieldsCall ==
    /\ pc = "call"
    /\ \E sep \in {";", ","} :
          LET Returns(r) ==
                  /\ field_separator' = sep
                  /\ ctypes_fields' = r.fields
                  /\ err' = r.err
                  /\ pc' = IF r.err = "" THEN "returned" ELSE "raised"
          IN  Returns(ctypes_parse_fields(s, type_mapping, constant_mapping, sep))
    /\ UNCHANGED <<header, s, before, parser,
                   type_mapping, constant_mapping, proto_mapping, classes>>
    /\ UNCHANGED helperVars

NextFields == ParseFieldsCall

SpecFields == InitFields /\ [][NextFields]_vars

(***************************************************************************)
(* A call of ctypes_parse_struct on a struct declaration                   *)
(***************************************************************************)
\* the number of trailing aliases of a struct declaration
MaxAliases == 2

StructHeads == {<<"struct">>, <<"typedef", " ", "struct">>}

StructTags == {<<>>, <<" ", "Tag">>}

StructBodies == {<<" ", "int", " ", "a", ";", " ">>,
                 <<" ", "int", " ", "a", ",", "b", "[", "2", "]", ";", " ",
                   "char", "*", " ", "u", ";", " ">>,
                 <<" ", "union", " ", "U", " ", "u", ";", " ">>}

\* an alias as written after a comma or the closing brace
Aliases == {<<"Foo">>, <<" ", "Foo">>, <<"*", "PFoo">>, <<" ", "*", "PFoo">>,
            <<"*", "*", "PPFoo">>}

AliasLists == {Join(q, ",") : q \in UNION {[1..n -> Aliases] : n \in 0..MaxAliases}}

StructTexts ==
    {h \o tag \o <<" ", "{">> \o b \o <<"}">> \o al \o <<";", "\n">> :
        h \in StructHeads, tag \in StructTags, b \in StructBodies, al \in AliasLists}

InitStruct ==
    /\ header \in StructTexts
    /\ s = header
    /\ before = <<>>
    /\ parser = ""
    /\ pc = "call"
    /\ err = ""
    /\ type_mapping = ctypes_default_type_mapping
    /\ constant_mapping = <<>>
    /\ proto_mapping = <<>>
    /\ classes = 0
    /\ field_separator = ""
    /\ ctypes_fields = <<>>
    /\ HelperIdle

\* m = ctypes_parse_struct(s, type_mapping, constant_mapping)
ParseStructCall ==
    /\ pc = "call"
    /\ LET Returns(r) ==
               /\ SetTables(r.T)
               /\ err' = r.err
               /\ pc' = IF r.err # "" THEN "raised"
                        ELSE IF r.m THEN "matched" ELSE "none"
       IN  Returns(ctypes_parse_struct(s, Tables))
    /\ parser' = "struct"
    /\ UNCHANGED <<header, s, before, field_separator, ctypes_fields>>
    /\ UNCHANGED helperVars

NextStruct == ParseStructCall

SpecStruct == InitStruct /\ [][NextStruct]_vars

(***************************************************************************)
(* Native libraries.  A library given to the helper is [path, handle]:     *)
(* handle is TRUE for a ctypes.WinDLL object and FALSE for a file path.    *)
(***************************************************************************)
\* the functions each library file exports
LibraryExports == ("a.dll" :> {<<"f">>}) @@
                  ("b.dll" :> {<<"f">>, <<"g">>, <<"_f">>}) @@
                  ("missing.dll" :> {})

\* the library files ctypes.WinDLL can load
Loadable == {"a.dll", "b.dll"}

\* hasattr(dll, name)
HasAttr(dll, name) == name \in LibraryExports[dll.path]

(***************************************************************************)
(* ctypes_hook_dll.  A namespace maps a name to [kind, type, value, dll]:  *)
(* a type, a constant value, or a function of the library dll.             *)
(***************************************************************************)
TypeEntry(ty) == [kind |-> "type", type |-> ty, value |-> PyInt(0), dll |-> ""]

ConstEntry(v) == [kind |-> "const", type |-> PyNone, value |-> v, dll |-> ""]

\* fn = getattr(dll, name) with argtypes and restype set from ctype
FuncEntry(ctype, dll) == [kind |-> "func", type |-> ctype, value |-> PyInt(0),
                          dll |-> dll.path]

\* the words that start with an underscore
UnderscoreWords == {"_FILETIME", "__stdcall", "_f", "_X"}

\* (" " not in name) and (not name.startswith("_"))
Admissible(name) ==
    /\ \A i \in 1..Len(name) : name[i] # " "
    /\ ~(name # <<>> /\ name[1] \in UnderscoreWords)

\* the index of the first dll of the list that has the name (0 if none)
FirstDll(dlls, name) ==
    LET S == {i \in 1..Len(dlls) : HasAttr(dlls[i], name)}
    IN  IF S = {} THEN 0 ELSE Least(S)

\* collections.namedtuple("C", names): the exception it raises, "" if none
NamedTupleError(names) ==
    IF \E n \in names : Len(n) > 1 \/ (Len(n) = 1 /\ ~IsWord(n[1]))
    THEN "ValueError"
    ELSE IF <<>> \in names THEN "IndexError"
    ELSE IF \E n \in names : n[1] \in UnderscoreWords
                             \/ n \in DOMAIN DecLits \/ n \in DOMAIN HexLits
    THEN "ValueError"
    ELSE ""

\* the result is [err, ns]
ctypes_hook_dll(types, consts, protos, dlls) ==
    LET tnames == {n \in DOMAIN types : Admissible(n)}
        cnames == {n \in DOMAIN consts : Admissible(n)}
        fnames == {n \in DOMAIN protos : FirstDll(dlls, n) > 0}
        c == [n \in tnames \cup cnames \cup fnames |->
                 IF n \in fnames THEN FuncEntry(protos[n], dlls[FirstDll(dlls, n)])
                 ELSE IF n \in cnames THEN ConstEntry(consts[n])
                 ELSE TypeEntry(types[n])]
    IN  [err |-> NamedTupleError(DOMAIN c), ns |-> c]

(***************************************************************************)
(* CTypesHelper                                                            *)
(***************************************************************************)
\* the loop with the exception of an include swallowed
RECURSIVE ParseIncludesSwallowing(_, _, _)
ParseIncludesSwallowing(includes, i, T) ==
    IF i > Len(includes) THEN [err |-> "", T |-> T, parsed |-> Len(includes)]
    ELSE ParseIncludesSwallowing(includes, i + 1,
                                 ctypes_parse_definitions(includes[i], T).T)

\* the loop of lines 1173-1176 over includes[i..]: [err, T, parsed], parsed
\* being the number of calls of ctypes_parse_definitions made
RECURSIVE ParseIncludes(_, _, _)
ParseIncludes(includes, i, T) ==
    IF i > Len(includes) THEN [err |-> "", T |-> T, parsed |-> Len(includes)]
    ELSE LET Parsed(r) ==
                 IF r.err # "" THEN [err |-> r.err, T |-> r.T, parsed |-> i]
                 ELSE ParseIncludes(includes, i + 1, r.T)
         IN  Parsed(ctypes_parse_definitions(includes[i], T))

\* the loop of lines 1179-1189 over self.dlls[i..]: dlls is the local list,
\* c the value of self.c and n the number of namespaces created so far
RECURSIVE LoadLoop(_, _, _, _, _, _)
LoadLoop(self_dlls0, i, dlls, c, n, T) ==
    IF i > Len(self_dlls0) THEN [err |-> "", dlls |-> dlls, c |-> c, n |-> n]
    \* ctypes.WinDLL(dll) of a file that cannot be loaded
    ELSE IF ~self_dlls0[i].handle /\ self_dlls0[i].path \notin Loadable
    THEN [err |-> "WindowsError", dlls |-> dlls, c |-> c, n |-> n]
    ELSE LET Hooked(dll, h) ==
                 IF h.err # ""
                 THEN [err |-> h.err, dlls |-> Append(dlls, dll), c |-> c, n |-> n]
                 ELSE LoadLoop(self_dlls0, i + 1, Append(dlls, dll),
                               [isNone |-> FALSE, id |-> n + 1, ns |-> h.ns], n + 1, T)
             Loaded(dll) ==
                 Hooked(dll, ctypes_hook_dll(T.type_mapping, T.constant_mapping,
                                             T.proto_mapping, <<dll>>))
         IN  Loaded([path |-> self_dlls0[i].path, handle |-> TRUE])

\* __call__ without the test of self.c: every invocation parses and binds
CTypesHelper_callUncached(self, n) ==
    LET Bound(l, parsed) ==
            IF l.err # ""
            THEN [self |-> [self EXCEPT !.c = l.c], n |-> l.n, err |-> l.err,
                  c |-> NoNamespace, parsed |-> parsed]
            ELSE [self |-> [self EXCEPT !.c = l.c, !.dlls = l.dlls], n |-> l.n,
                  err |-> "", c |-> l.c, parsed |-> parsed]
        Parsed(p) ==
            IF p.err # ""
            THEN [self |-> self, n |-> n, err |-> p.err, c |-> NoNamespace,
                  parsed |-> p.parsed]
            ELSE Bound(LoadLoop(self.dlls, 1, <<>>, self.c, n, p.T), p.parsed)
    IN  Parsed(ParseIncludes(self.includes, 1, FreshTables))

\* CTypesHelper.__call__ on the helper [c, dlls, includes], n namespaces
\* having been created: the helper as the call leaves it, the exception
\* raised ("" if none), the value returned and the number of includes parsed
CTypesHelper_call(self, n) ==
    LET Bound(l, parsed) ==
            IF l.err # ""
            THEN [self |-> [self EXCEPT !.c = l.c], n |-> l.n, err |-> l.err,
                  c |-> NoNamespace, parsed |-> parsed]
            ELSE [self |-> [self EXCEPT !.c = l.c, !.dlls = l.dlls], n |-> l.n,
                  err |-> "", c |-> l.c, parsed |-> parsed]
        Parsed(p) ==
            IF p.err # ""
            THEN [self |-> self, n |-> n, err |-> p.err, c |-> NoNamespace,
                  parsed |-> p.parsed]
            ELSE Bound(LoadLoop(self.dlls, 1, <<>>, self.c, n, p.T), p.parsed)
    IN  IF ~self.c.isNone
        THEN [self |-> self, n |-> n, err |-> "", c |-> self.c, parsed |-> 0]
        ELSE Parsed(ParseIncludes(self.includes, 1, FreshTables))

\* the namespace objects with the one self.c refers to
Referenced(objs, c) == IF c.isNone THEN objs ELSE Put(objs, c.id, c.ns)

\* the headers given to the helpers
\* int __stdcall f(int x);\nint g(void);\n
HeaderProtos ==
    <<"int", " ", "__stdcall", " ", "f", "(", "int", " ", "x", ")", ";", "\n",
      "int", " ", "g", "(", "void", ")", ";", "\n">>

\* typedef B x;\n
HeaderUnknownType == <<"typedef", " ", "B", " ", "x", ";", "\n">>

HelperHeaders == {HeaderProtos, DeclTypedef \o DeclDefine, DeclUnion, HeaderUnknownType}

\* the number of includes, of libraries and of invocations of a helper
MaxIncludes == 2

MaxDlls == 2

MaxCalls == 2

\* a WinDLL object is the handle of a loaded file
LibraryArgs == {[path |-> p, handle |-> FALSE] : p \in DOMAIN LibraryExports}
               \cup {[path |-> p, handle |-> TRUE] : p \in Loadable}

\* CTypesHelper(includes, dlls)
InitHelper ==
    /\ self_c = NoNamespace
    /\ self_includes \in UNION {[1..n -> HelperHeaders] : n \in 0..MaxIncludes}
    /\ self_dlls \in UNION {[1..n -> LibraryArgs] : n \in 0..MaxDlls}
    /\ ret = NoOutcome
    /\ calls = 0
    /\ namespaces = 0
    /\ objects = <<>>
    /\ parses = 0
    /\ threads = <<>>
    /\ header = <<>>
    /\ s = <<>>
    /\ before = <<>>
    /\ parser = ""
    /\ pc = ""
    /\ err = ""
    /\ type_mapping = <<>>
    /\ constant_mapping = <<>>
    /\ proto_mapping = <<>>
    /\ classes = 0
    /\ field_separator = ""
    /\ ctypes_fields = <<>>

\* c = c_helper()
Call ==
    /\ calls < MaxCalls
    /\ ret.kind # "unending"
    /\ LET Returns(r) ==
               /\ self_c' = r.self.c
               /\ self_dlls' = r.self.dlls
               /\ namespaces' = r.n
               /\ objects' = Referenced(objects, r.self.c)
               /\ parses' = parses + r.parsed
               /\ ret' = [kind |-> IF r.err = "" THEN "returned"
                                    ELSE IF r.err = "unending" THEN "unending"
                                    ELSE "raised",
                          err |-> r.err, c |-> r.c]
       IN  Returns(CTypesHelper_call([c |-> self_c, dlls |-> self_dlls,
                                      includes |-> self_includes], namespaces))
    /\ calls' = calls + 1
    /\ UNCHANGED <<self_includes, threads>>
    /\ UNCHANGED parserVars

NextHelper == Call

SpecHelper == InitHelper /\ [][NextHelper]_vars

(***************************************************************************)
(* CTypesHelper.update                                                     *)
(***************************************************************************)
\* c_dict.update(d)
Merged(ns, d) == [n \in DOMAIN ns \cup DOMAIN d |-> IF n \in DOMAIN d THEN d[n] ELSE ns[n]]

\* CTypesHelper.update(d) on the helper [c, dlls, includes], n namespaces
\* having been created; the result is as for __call__
CTypesHelper_update(self, d, n) ==
    \* None._asdict()
    IF self.c.isNone
    THEN [self |-> self, n |-> n, err |-> "AttributeError", c |-> NoNamespace]
    ELSE IF NamedTupleError(DOMAIN Merged(self.c.ns, d)) # ""
    THEN [self |-> self, n |-> n,
          err |-> NamedTupleError(DOMAIN Merged(self.c.ns, d)), c |-> NoNamespace]
    \* return self(), with self.c set
    ELSE [self |-> [self EXCEPT !.c = [isNone |-> FALSE, id |-> n + 1,
                                       ns |-> Merged(self.c.ns, d)]],
          n |-> n + 1, err |-> "",
          c |-> [isNone |-> FALSE, id |-> n + 1, ns |-> Merged(self.c.ns, d)]]

\* the helpers update is called on
UpdateIncludes == {<<HeaderProtos>>, <<DeclTypedef \o DeclDefine>>, <<DeclUnion>>}

UpdateDlls == {<<>>,
               <<[path |-> "a.dll", handle |-> TRUE]>>,
               <<[path |-> "b.dll", handle |-> FALSE]>>,
               <<[path |-> "a.dll", handle |-> FALSE],
                 [path |-> "missing.dll", handle |-> FALSE]>>}

\* the dictionaries given to update: f is a function of the libraries, MAX a
\* constant of the headers and h a new name
UpdateNames == {<<"f">>, <<"MAX">>, <<"h">>, <<"_X">>}

UpdateDicts == UNION {[D -> {ConstEntry(PyInt(7))}] : D \in SUBSET UpdateNames}

InitUpdate ==
    /\ self_c = NoNamespace
    /\ self_includes \in UpdateIncludes
    /\ self_dlls \in UpdateDlls
    /\ ret = NoOutcome
    /\ calls = 0
    /\ namespaces = 0
    /\ objects = <<>>
    /\ parses = 0
    /\ threads = <<>>
    /\ header = <<>>
    /\ s = <<>>
    /\ before = <<>>
    /\ parser = ""
    /\ pc = ""
    /\ err = ""
    /\ type_mapping = <<>>
    /\ constant_mapping = <<>>
    /\ proto_mapping = <<>>
    /\ classes = 0
    /\ field_separator = ""
    /\ ctypes_fields = <<>>

\* c = c_helper.update(d)
UpdateWith(d) ==
    /\ calls < MaxCalls
    /\ LET Returns(r) ==
               /\ self_c' = r.self.c
               /\ namespaces' = r.n
               /\ objects' = Referenced(objects, r.self.c)
               /\ ret' = [kind |-> IF r.err = "" THEN "returned" ELSE "raised",
                          err |-> r.err, c |-> r.c]
       IN  Returns(CTypesHelper_update([c |-> self_c, dlls |-> self_dlls,
                                        includes |-> self_includes], d, namespaces))
    /\ calls' = calls + 1
    /\ UNCHANGED <<self_includes, self_dlls, parses, threads>>
    /\ UNCHANGED parserVars

Update == \E d \in UpdateDicts : UpdateWith(d)

NextUpdate ==
    \/ Call
    \/ Update

SpecUpdate == InitUpdate /\ [][NextUpdate]_vars

(***************************************************************************)
(* CTypesHelper.__call__ invoked by several threads on the same helper.    *)
(* The interpreter may switch threads between any two statements: a thread *)
(* takes one step for the test of self.c, one for the loop over the        *)
(* includes, which touches only its local tables, one for each iteration   *)
(* of the loop over the libraries, one for the assignment of self.dlls and *)
(* one for the return.  threads[t] holds the position of thread t, its     *)
(* local types, consts and protos (T), the list the loop iterates over     *)
(* (over), its index in it (i), its local list dlls and the outcome of its *)
(* last invocation (ret).                                                  *)
(***************************************************************************)
\* the number of threads and of invocations they make together
NumThreads == 2

MaxInvocations == 3

Threads == 1..NumThreads

\* the helpers shared by the threads: every include parses and every
\* library loads
ThreadIncludes == {<<HeaderProtos>>, <<DeclTypedef \o DeclDefine>>,
                   <<DeclTypedef, HeaderProtos>>}

ThreadDlls == {<<[path |-> "a.dll", handle |-> TRUE]>>,
               <<[path |-> "b.dll", handle |-> TRUE]>>,
               <<[path |-> "a.dll", handle |-> FALSE]>>,
               <<[path |-> "b.dll", handle |-> FALSE]>>}

\* a thread outside __call__
Outside == [pc |-> "outside", T |-> FreshTables, over |-> <<>>, i |-> 0,
            dlls |-> <<>>, ret |-> NoOutcome]

InitThreads ==
    /\ self_c = NoNamespace
    /\ self_includes \in ThreadIncludes
    /\ self_dlls \in ThreadDlls
    /\ ret = NoOutcome
    /\ calls = 0
    /\ namespaces = 0
    /\ objects = <<>>
    /\ parses = 0
    /\ threads = [t \in Threads |-> Outside]
    /\ header = <<>>
    /\ s = <<>>
    /\ before = <<>>
    /\ parser = ""
    /\ pc = ""
    /\ err = ""
    /\ type_mapping = <<>>
    /\ constant_mapping = <<>>
    /\ proto_mapping = <<>>
    /\ classes = 0
    /\ field_separator = ""
    /\ ctypes_fields = <<>>

\* if (self.c is None) of line 1170
TestNone(t) ==
    /\ threads[t].pc = "outside"
    /\ calls < MaxInvocations
    /\ calls' = calls + 1
    /\ threads' = [threads EXCEPT ![t].pc = IF self_c.isNone THEN "parse" ELSE "return"]
    /\ UNCHANGED <<self_c, self_dlls, self_includes, ret, namespaces, objects, parses>>
    /\ UNCHANGED parserVars

\* lines 1171-1178: the includes parsed into the local tables, dlls = []
ParseLocal(t) ==
    /\ threads[t].pc = "parse"
    /\ LET Parsed(p) ==
               /\ parses' = parses + p.parsed
               /\ threads' = [threads EXCEPT ![t] =
                      IF p.err # ""
                      THEN [Outside EXCEPT !.ret = [kind |-> "raised", err |-> p.err,
                                                    c |-> NoNamespace]]
                      ELSE [@ EXCEPT !.pc = "load", !.T = p.T, !.over = self_dlls,
                                     !.i = 1, !.dlls = <<>>]]
       IN  Parsed(ParseIncludes(self_includes, 1, FreshTables))
    /\ UNCHANGED <<self_c, self_dlls, self_includes, ret, calls, namespaces, objects>>
    /\ UNCHANGED parserVars

\* one iteration of the loop of lines 1179-1189, which ends with the
\* assignment of self.c
LoadOne(t) ==
    /\ threads[t].pc = "load"
    /\ threads[t].i <= Len(threads[t].over)
    /\ LET Loaded(l) ==
               /\ self_c' = l.c
               /\ namespaces' = l.n
               /\ objects' = Referenced(objects, l.c)
               /\ threads' = [threads EXCEPT ![t] =
                      IF l.err # ""
                      THEN [Outside EXCEPT !.ret = [kind |-> "raised", err |-> l.err,
                                                    c |-> NoNamespace]]
                      ELSE [@ EXCEPT !.i = @ + 1, !.dlls = l.dlls]]
       IN  Loaded(LoadLoop(<<threads[t].over[threads[t].i]>>, 1, threads[t].dlls,
                           self_c, namespaces, threads[t].T))
    /\ UNCHANGED <<self_dlls, self_includes, ret, calls, parses>>
    /\ UNCHANGED parserVars

\* self.dlls = dlls of line 1192
KeepDlls(t) ==
    /\ threads[t].pc = "load"
    /\ threads[t].i > Len(threads[t].over)
    /\ self_dlls' = threads[t].dlls
    /\ threads' = [threads EXCEPT ![t].pc = "return"]
    /\ UNCHANGED <<self_c, self_includes, ret, calls, namespaces, objects, parses>>
    /\ UNCHANGED parserVars

\* return self.c of line 1194
ReturnC(t) ==
    /\ threads[t].pc = "return"
    /\ threads' = [threads EXCEPT ![t] =
           [Outside EXCEPT !.ret = [kind |-> "returned", err |-> "", c |-> self_c]]]
    /\ ret' = [kind |-> "returned", err |-> "", c |-> self_c]
    /\ UNCHANGED <<self_c, self_dlls, self_includes, calls, namespaces, objects, parses>>
    /\ UNCHANGED parserVars

NextThreads ==
    \E t \in Threads :
        \/ TestNone(t)
        \/ ParseLocal(t)
        \/ LoadOne(t)
        \/ KeepDlls(t)
        \/ ReturnC(t)

SpecThreads == InitThreads /\ [][NextThreads]_vars

(***************************************************************************)
(* One include bound against a list of loaded libraries: the call of       *)
(* ctypes_parse_definitions of line 1176, then the one of ctypes_hook_dll  *)
(***************************************************************************)
\* int _f(void);\n
DeclUnderscoreProto ==
    <<"int", " ", "_f", "(", "void", ")", ";", "\n">>

\* #define _X 1\n
DeclUnderscoreDefine ==
    <<"#", "define", " ", "_X", " ", "1", "\n">>

\* int h(void);\n
DeclUnexported ==
    <<"int", " ", "h", "(", "void", ")", ";", "\n">>

HookDecls == {DeclTypedef, DeclA5, DeclStruct, DeclProto, DeclUnderscoreProto,
              DeclUnderscoreDefine, DeclUnion, DeclUnexported}

\* the number of declarations of the include
MaxHookDecls == 2

HookHeaders == {Concat(q) : q \in UNION {[1..n -> HookDecls] : n \in 0..MaxHookDecls}}

\* the loaded libraries handed to ctypes_hook_dll
HookDlls == {<<[path |-> p, handle |-> TRUE]>> : p \in Loadable}
            \cup {<<[path |-> p, handle |-> TRUE], [path |-> q, handle |-> TRUE]>> :
                     p \in Loadable, q \in Loadable}

InitHook ==
    /\ header \in HookHeaders
    /\ s = header
    /\ before = <<>>
    /\ parser = ""
    /\ pc = "parse"
    /\ err = ""
    /\ type_mapping = FreshTables.type_mapping
    /\ constant_mapping = FreshTables.constant_mapping
    /\ proto_mapping = FreshTables.proto_mapping
    /\ classes = FreshTables.classes
    /\ field_separator = ""
    /\ ctypes_fields = <<>>
    /\ self_c = NoNamespace
    /\ self_dlls \in HookDlls
    /\ self_includes = <<>>
    /\ ret = NoOutcome
    /\ calls = 0
    /\ namespaces = 0
    /\ objects = <<>>
    /\ parses = 0
    /\ threads = <<>>

\* ctypes_parse_definitions(include, types, consts, protos)
HookParse ==
    /\ pc = "parse"
    /\ LET Parsed(r) ==
               /\ SetTables(r.T)
               /\ err' = r.err
               /\ pc' = IF r.err = "" THEN "hook" ELSE "raised"
       IN  Parsed(ctypes_parse_definitions(s, Tables))
    /\ UNCHANGED <<header, s, before, parser, field_separator, ctypes_fields>>
    /\ UNCHANGED helperVars

\* c = ctypes_hook_dll(types, consts, protos, dlls)
HookBind ==
    /\ pc = "hook"
    /\ LET Hooked(h) ==
               ret' = [kind |-> IF h.err = "" THEN "returned" ELSE "raised",
                       err |-> h.err,
                       c |-> IF h.err = "" THEN [isNone |-> FALSE, id |-> 1, ns |-> h.ns]
                             ELSE NoNamespace]
       IN  Hooked(ctypes_hook_dll(type_mapping, constant_mapping, proto_mapping,
                                  self_dlls))
    /\ pc' = "hooked"
    /\ UNCHANGED <<header, s, before, parser, err, field_separator, ctypes_fields,
                   type_mapping, constant_mapping, proto_mapping, classes>>
    /\ UNCHANGED <<self_c, self_dlls, self_includes, calls, namespaces,
                   objects, parses, threads>>

NextHook ==
    \/ HookParse
    \/ HookBind

SpecHook == InitHook /\ [][NextHook]_vars

(***************************************************************************)
(* Properties of ctypes_parse_definitions (SpecDefinitions)                *)
(***************************************************************************)
HasUnion(h) == \E i \in 1..Len(h) : h[i] = "union"

\* C1: a header that contains a union declaration, wherever it stands among
\* the other declarations, never makes ctypes_parse_definitions return
\* normally.
C1_UnsupportedNeverReturns == HasUnion(header) => pc # "returned"

\* C2: when the driver loop stops because no sub-parser matches, the call
\* returns normally if the remaining text is empty or whitespace and raises
\* the AssertionError carrying the remaining text otherwise.
C2_RemainderIsFatal ==
    /\ pc = "returned" => Strip(s) = <<>>
    /\ (pc \in {"returned", "raised"} /\ parser = "")
          => IF \A i \in 1..Len(s) : IsSpace(s[i])
             THEN pc = "returned" /\ err = ""
             ELSE pc = "raised" /\ err = "AssertionError"

\* the loop stopped after at least one match, on a remainder that is not blank
C2_Witness ==
    /\ pc = "raised" /\ parser = "" /\ err = "AssertionError"
    /\ Len(s) < Len(ctypes_preprocess(header))
    /\ \E i \in 1..Len(s) : ~IsSpace(s[i])

\* C7: what ctypes_parse_define consumes ends on the line on which the
\* #define starts: the consumed prefix has no end of line after the "#".
C7_DefineStaysOnLine ==
    (pc = "loop" /\ parser = "define")
       => LET consumed == SubSeq(before, 1, Len(before) - Len(s))
          IN  \A k \in Find(consumed, 1, {"#"})..Len(consumed) : consumed[k] # "\n"

(***************************************************************************)
(* Properties of ctypes_parse_fields (SpecFields)                          *)
(***************************************************************************)
\* the elements of the list that are not blank
Elements(text, sep) ==
    SelectSeq(Split(text, sep), LAMBDA e : Strip(e) # <<>>)

\* the layout of a declarator without the array suffix
PointerLayout(m, declarator) ==
    ctypes_get_or_create_type(type_mapping, constant_mapping, m.unsigned,
                              Strip(m.type), Count(declarator, "*"), <<>>).type

\* the value of an array size
SizeOf(arraysize) ==
    IF arraysize \in DOMAIN constant_mapping THEN constant_mapping[arraysize].num
    ELSE DecLits[arraysize]

\* C6: when the only element of a field list carries an [N] suffix, its last
\* declarator is an Array of length N of its pointer-derived layout and no
\* earlier declarator is an array.
C6_ArrayOnLastDeclarator ==
    (pc = "returned" /\ Len(Elements(s, field_separator)) = 1)
       => LET m == MatchField(Strip(Elements(s, field_separator)[1]))
              names == Split(Strip(m.name), ",")
              K == Len(names)
          IN  m.arraysize # <<>>
                 => /\ Len(ctypes_fields) = K
                    /\ ctypes_fields[K].type =
                          ArrayOf(PointerLayout(m, names[K]), SizeOf(m.arraysize))
                    /\ \A i \in 1..(K - 1) :
                          ctypes_fields[i].type = PointerLayout(m, names[i])

\* the elements of a split list without the empty ones that end it
RECURSIVE WithoutTrailingEmpty(_)
WithoutTrailingEmpty(fields) ==
    IF fields = <<>> \/ Strip(fields[Len(fields)]) # <<>> THEN fields
    ELSE WithoutTrailingEmpty(SubSeq(fields, 1, Len(fields) - 1))

\* the names of the declarators of the elements, in order
RECURSIVE DeclaredNames(_)
DeclaredNames(fields) ==
    IF fields = <<>> THEN <<>>
    ELSE LET names == Split(Strip(MatchField(Strip(Head(fields))).name), ",")
         IN  [i \in 1..Len(names) |-> Strip(Remove(names[i], "*"))]
             \o DeclaredNames(Tail(fields))

\* C18: a call that returns has produced, in order, a descriptor for every
\* declarator of every element of the split list; only empty elements at
\* the end of the list are left out.
C18_EveryElementDescribed ==
    pc = "returned"
       => LET kept == WithoutTrailingEmpty(Split(s, field_separator))
          IN  /\ \A i \in 1..Len(kept) : Strip(kept[i]) # <<>>
              /\ [i \in 1..Len(ctypes_fields) |-> ctypes_fields[i].name]
                    = DeclaredNames(kept)

(***************************************************************************)
(* Properties of ctypes_parse_struct (SpecStruct)                          *)
(***************************************************************************)
StructText(h, tag, b, q) ==
    h \o tag \o <<" ", "{">> \o b \o <<"}">> \o Join(q, ",") \o <<";", "\n">>

AliasSeqs == UNION {[1..n -> Aliases] : n \in 0..MaxAliases}

\* the fields of a body, parsed on the seeded tables
BodyFields(b) == ctypes_parse_fields(b, ctypes_default_type_mapping, <<>>, ";")

\* the candidate names: each trailing alias and the tag, if present
Candidates(tag, q) == q \o (IF tag = <<>> THEN <<>> ELSE <<tag>>)

CleanName(c) == Strip(Remove(c, "*"))

\* v is the struct with these fields under n Pointer layers
IsStructPointer(v, fields, n) ==
    /\ v.base = "Structure" /\ v.id = 1 /\ v.fields = fields
    /\ Len(v.wrap) = n
    /\ \A i \in 1..n : v.wrap[i] = <<"POINTER", 0>>

\* C8: a struct declaration with a tag and no alias list is matched, and
\* registers the tag as the struct built from the body.
C8_TagOnlyStructRegistered ==
    \A h \in StructHeads, b \in StructBodies :
       (pc # "call" /\ header = StructText(h, <<" ", "Tag">>, b, <<>>)
          /\ BodyFields(b).err = "")
          => /\ pc = "matched"
             /\ <<"Tag">> \in DOMAIN type_mapping
             /\ type_mapping[<<"Tag">>] = Structure(1, <<"Tag">>, BodyFields(b).fields)

\* C9: for one struct declaration exactly one struct is created, and every
\* candidate name is registered as that struct under as many Pointer layers
\* as the candidate has stars, with the fields of the body in order.
C9_OneStructForAllNames ==
    \A h \in StructHeads, tag \in StructTags, b \in StructBodies, q \in AliasSeqs :
       (pc # "call" /\ header = StructText(h, tag, b, q) /\ BodyFields(b).err = "")
          => LET cs == Candidates(tag, q)
             IN  /\ pc = "matched"
                 /\ classes = 1
                 /\ \A i \in 1..Len(cs) :
                       /\ CleanName(cs[i]) \in DOMAIN type_mapping
                       /\ IsStructPointer(type_mapping[CleanName(cs[i])],
                                          BodyFields(b).fields, Count(cs[i], "*"))
                 /\ \A i, j \in 1..Len(cs) :
                       type_mapping[CleanName(cs[i])].name =
                          type_mapping[CleanName(cs[j])].name

RECURSIVE IncludeError(_, _, _)
IncludeError(includes, i, T) ==
    IF i > Len(includes) THEN ""
    ELSE IF ctypes_parse_definitions(includes[i], T).err # ""
    THEN ctypes_parse_definitions(includes[i], T).err
    ELSE IncludeError(includes, i + 1, ctypes_parse_definitions(includes[i], T).T)

\* the prototypes of the includes
RECURSIVE IncludeProtos(_, _, _)
IncludeProtos(includes, i, T) ==
    IF i > Len(includes) THEN T.proto_mapping
    ELSE IncludeProtos(includes, i + 1, ctypes_parse_definitions(includes[i], T).T)

\* a library of the helper that cannot be loaded
LoadFails == \E i \in 1..Len(self_dlls) :
                ~self_dlls[i].handle /\ self_dlls[i].path \notin Loadable

\* C3: a helper with several libraries returns a namespace that has every
\* prototyped function some library exports, bound to the first library of
\* the list that exports it.
C3_EveryLibraryBound ==
    (ret.kind = "returned" /\ Len(self_dlls) >= 2)
       => /\ ~ret.c.isNone
          /\ \A n \in DOMAIN IncludeProtos(self_includes, 1, FreshTables) :
                FirstDll(self_dlls, n) > 0
                   => /\ n \in DOMAIN ret.c.ns
                      /\ ret.c.ns[n].kind = "func"
                      /\ ret.c.ns[n].dll = self_dlls[FirstDll(self_dlls, n)].path

\* C4: when a library fails to load during the first invocation, the
\* invocation raises and the helper keeps no namespace, so no invocation
\* returns a namespace.
C4_FailedLoadLeavesUnbound ==
    (calls > 0 /\ IncludeError(self_includes, 1, FreshTables) = "" /\ LoadFails)
       => /\ self_c.isNone
          /\ ret.kind = "raised"

\* C5: when parsing an include raises, every invocation raises that
\* exception and the helper stays without a namespace.
C5_ParseErrorLeavesUnbound ==
    (calls > 0 /\ IncludeError(self_includes, 1, FreshTables) # "")
       => /\ self_c.isNone
          /\ ret.kind = "raised"
          /\ ret.err = IncludeError(self_includes, 1, FreshTables)
          /\ ret.c.isNone

\* a second invocation after a parse error, of a helper whose libraries load
C5_Witness ==
    /\ calls >= 2
    /\ IncludeError(self_includes, 1, FreshTables) # ""
    /\ self_dlls # <<>> /\ ~LoadFails
    /\ ret.kind = "raised"

\* C11: after parsing any header, every name of the seeded primitive table
\* still maps to the layout it was seeded with: no declaration removes or
\* overwrites a seeded entry.
C11_SeededEntriesKept ==
    \A k \in DOMAIN ctypes_default_type_mapping :
        /\ k \in DOMAIN type_mapping
        /\ type_mapping[k] = ctypes_default_type_mapping[k]

C13_ParsingTerminates ==
    /\ pc # "unending"
    /\ (pc = "loop" /\ parser # "") => Len(s) < Len(before)

\* a Pointer layer over t; the pointer to None is ctypes.c_void_p
PointerOver(t) == IF t = PyNone THEN Prim("c_void_p") ELSE POINTER(t)

RECURSIVE PointerLayers(_, _)
PointerLayers(t, n) == IF n = 0 THEN t ELSE PointerLayers(PointerOver(t), n - 1)

\* C14: a declarator of a registered type T with n >= 1 stars and no array
\* has exactly n Pointer layers over the layout T has with no star; only
\* char and wchar with one star give the string-pointer primitives instead.
C14_PointerLayers ==
    \A T \in FieldTypes, n \in 1..MaxStars :
        (pc = "returned" /\ header = T \o Stars(n) \o <<" ", "a">>)
           => ctypes_fields[1].type =
                 IF n = 1 /\ type_mapping[T] = Prim("c_char") THEN Prim("c_char_p")
                 ELSE IF n = 1 /\ type_mapping[T] = Prim("c_wchar") THEN Prim("c_wchar_p")
                 ELSE PointerLayers(type_mapping[T], n)

\* C15: a #define stores the value its right-hand side has at that moment:
\* a constant defined as an alias of an already defined constant takes that
\* constant's value, and a later #define changes the value of no other
\* name, so after "#define A 5", "#define B A", "#define A 7" B is 5 and A 7.
C15_AliasKeepsValue ==
    [][(pc = "loop" /\ parser' = "define" /\ pc' = "loop")
          => LET m == DefinePattern(s)
             IN  /\ \A b \in DOMAIN constant_mapping \ {m.dname} :
                        /\ b \in DOMAIN constant_mapping'
                        /\ constant_mapping'[b] = constant_mapping[b]
                 /\ m.dvalue \in DOMAIN constant_mapping
                       => constant_mapping'[m.dname] = constant_mapping[m.dvalue]]_vars

\* "#define A 5", "#define B A", "#define A 7" parsed: B is 5 and A is 7
C15_Witness ==
    /\ header = DeclA5 \o DeclBA \o DeclA7
    /\ pc = "returned"
    /\ constant_mapping[<<"B">>] = PyInt(5)
    /\ constant_mapping[<<"A">>] = PyInt(7)

\* C28: the single lookup of a #define resolves an alias fully: when the
\* value of a #define names a constant that exists, the value stored for
\* the new constant is not the name of a constant that exists at that
\* moment
C28_SingleLookupResolves ==
    [][(pc = "loop" /\ parser' = "define" /\ pc' = "loop")
          => LET Resolved(m) ==
                     m.dvalue \in DOMAIN constant_mapping
                        => ~ /\ constant_mapping'[m.dname].kind = "str"
                             /\ constant_mapping'[m.dname].text
                                    \in DOMAIN constant_mapping
             IN  Resolved(DefinePattern(s))]_vars

(***************************************************************************)
(* Properties of ctypes_hook_dll (SpecHook)                                *)
(***************************************************************************)
\* C16: when a header declares the same name as a type and as a #define
\* constant, ctypes_hook_dll raises nothing and the namespace maps the name
\* to the declaration written last.
C16_LastDeclarationWins ==
    (pc = "hooked" /\ header \in {DeclTypedef \o DeclA5, DeclA5 \o DeclTypedef})
       => /\ ret.kind = "returned"
          /\ <<"A">> \in DOMAIN ret.c.ns
          /\ ret.c.ns[<<"A">>] = IF header = DeclTypedef \o DeclA5
                                  THEN ConstEntry(PyInt(5))
                                  ELSE TypeEntry(Prim("c_int"))

\* C17: ctypes_hook_dll never fails because of a name, and the namespace
\* holds exactly the names of types, of constants and of prototyped
\* functions a library exports that have no space and no leading
\* underscore.
C17_OnlyAdmissibleNames ==
    pc = "hooked"
       => /\ ret.kind = "returned"
          /\ DOMAIN ret.c.ns =
                {n \in DOMAIN type_mapping \cup DOMAIN constant_mapping
                       \cup {f \in DOMAIN proto_mapping : FirstDll(self_dlls, f) > 0} :
                    Admissible(n)}

\* the i-th library of the list is the first one that exports name
FirstExporting(i, name) ==
    /\ HasAttr(self_dlls[i], name)
    /\ \A j \in 1..(i - 1) : ~HasAttr(self_dlls[j], name)

\* C26: ctypes_hook_dll binds every prototyped function that a library of
\* the list exports to the first library of the list that exports it, with
\* the layouts of its prototype
C26_BoundToFirstLibrary ==
    pc = "hooked"
       => \A name \in DOMAIN proto_mapping :
              \A i \in 1..Len(self_dlls) :
                  FirstExporting(i, name)
                     => /\ ret.kind = "returned"
                        /\ name \in DOMAIN ret.c.ns
                        /\ ret.c.ns[name].kind = "func"
                        /\ ret.c.ns[name].dll = self_dlls[i].path
                        /\ ret.c.ns[name].type = proto_mapping[name]

\* the prototyped functions that no library of the list exports
Unexported ==
    {name \in DOMAIN proto_mapping :
        \A i \in 1..Len(self_dlls) : ~HasAttr(self_dlls[i], name)}

\* C27: when no library exports a prototyped function, ctypes_hook_dll
\* raises nothing and the namespace lacks that name and holds every other
\* admissible type and constant and every exported function
C27_UnexportedLeftOut ==
    (pc = "hooked" /\ Unexported # {})
       => /\ ret.kind = "returned"
          /\ DOMAIN ret.c.ns \cap Unexported = {}
          /\ \A n \in DOMAIN type_mapping \cup DOMAIN constant_mapping :
                 (Admissible(n) /\ n \notin Unexported) => n \in DOMAIN ret.c.ns
          /\ DOMAIN proto_mapping \ Unexported \subseteq DOMAIN ret.c.ns

(***************************************************************************)
(* Properties of ctypes_preprocess (SpecPreprocess)                        *)
(***************************************************************************)
\* a text without directive, extern or comment
PlainText(t) == \A i \in 1..Len(t) : t[i] \notin {"#", "extern", "//", "/*"}

\* the closing brace at i is the sole content of its line, which ends
\* right after it
LoneBrace(t, i) ==
    /\ t[i] = "}"
    /\ i < Len(t) /\ t[i + 1] = "\n"
    /\ \A k \in 1..(i - 1) :
          t[k] = " " \/ \E n \in k..(i - 1) : t[n] = "\n"

\* t without the lone closing braces and the ends of their lines
WithoutLoneBraces(t) ==
    LET kept == {i \in 1..Len(t) :
                    ~LoneBrace(t, i) /\ ~(i > 1 /\ LoneBrace(t, i - 1))}
        Nth(k) == CHOOSE i \in kept : Cardinality({j \in kept : j <= i}) = k
    IN  [k \in 1..Cardinality(kept) |-> t[Nth(k)]]

\* C19: of a header without directive, extern or comment, ctypes_preprocess
\* removes the closing braces that are the sole content of their line and
\* keeps every other character, in order.
C19_OnlyLoneBracesRemoved ==
    (pc = "loop" /\ PlainText(header)) => s = WithoutLoneBraces(header)

\* C20: whenever the helper holds a namespace, its dlls attribute holds the
\* loaded handle of every library a function of the namespace is bound to.
C20_HandlesKept ==
    ~self_c.isNone
       => \A n \in DOMAIN self_c.ns :
             self_c.ns[n].kind = "func"
                => \E i \in DOMAIN self_dlls :
                      self_dlls[i] = [path |-> self_c.ns[n].dll, handle |-> TRUE]

(***************************************************************************)
(* Properties of CTypesHelper.update (SpecUpdate)                          *)
(***************************************************************************)
\* C21: update(d) on a helper that holds a namespace returns a new
\* namespace that has every entry of the previous one and every entry of
\* d, with the value of d for a name both have, and the previous namespace
\* object keeps its entries.
C21_UpdateMerges ==
    [][\A d \in UpdateDicts :
          (~self_c.isNone /\ UpdateWith(d))
             => /\ ret'.kind = "returned"
                /\ ret'.c = self_c'
                /\ self_c'.id # self_c.id
                /\ DOMAIN self_c'.ns = DOMAIN self_c.ns \cup DOMAIN d
                /\ \A n \in DOMAIN self_c'.ns :
                      self_c'.ns[n] = IF n \in DOMAIN d THEN d[n] ELSE self_c.ns[n]
                /\ objects'[self_c.id] = self_c.ns]_vars

\* C22 as stated: a helper is constructed without parsing or loading, and
\* once it has been invoked every invocation returns the namespace the
\* helper holds without parsing or loading again.
C22_ParsedOnce ==
    [][/\ calls = 0 => (parses = 0 /\ namespaces = 0 /\ self_c.isNone)
       /\ (parses > 0 /\ Call)
             => /\ parses' = parses
                /\ namespaces' = namespaces
                /\ ret'.kind = "returned"
                /\ ~ret'.c.isNone
                /\ ret'.c = self_c]_vars

\* C22, amended: a helper is constructed without parsing or loading; an
\* invocation of a helper that holds no namespace parses its includes, and
\* an invocation of a helper that holds a namespace returns that namespace
\* object and neither parses nor loads.
C22_CachedWhileHeld ==
    [][/\ calls = 0 => (parses = 0 /\ namespaces = 0 /\ self_c.isNone)
       /\ (self_c.isNone /\ Call) => parses' > parses
       /\ (~self_c.isNone /\ Call)
             => /\ parses' = parses
                /\ namespaces' = namespaces
                /\ objects' = objects
                /\ self_c' = self_c
                /\ ret'.kind = "returned"
                /\ ret'.c = self_c]_vars

\* the second invocation of a helper has returned the namespace the first
\* one built, the includes having been parsed once
C22_Witness ==
    /\ calls = 2
    /\ parses = 1
    /\ namespaces = 1
    /\ ret.kind = "returned"
    /\ ~self_c.isNone /\ ret.c = self_c


(***************************************************************************)
(* Properties of the driver loop (SpecDefinitions)                         *)
(***************************************************************************)
\* what an iteration from the text s may do, given what the four sub-parsers
\* return on s: t, st, d, f are the results of the typedef, struct, define
\* and function parsers
TriedInOrder(t, st, d, f) ==
    /\ parser' = "typedef" => t.m
    /\ parser' = "struct" => ~t.m /\ st.m
    /\ parser' = "define" => ~t.m /\ ~st.m /\ d.m
    /\ parser' = "function" => ~t.m /\ ~st.m /\ ~d.m /\ f.m
    /\ parser' = "" => ~t.m /\ ~st.m /\ ~d.m /\ ~f.m /\ s' = s /\ pc' # "loop"
    /\ pc' = "loop" =>
           /\ parser' # ""
           /\ before' = s
           /\ parser' = "typedef" => s' = Tail0(s, t.end)
           /\ parser' = "struct" => s' = Tail0(s, st.end)
           /\ parser' = "define" => s' = Tail0(s, d.end)
           /\ parser' = "function" => s' = Tail0(s, f.end)

\* C23: every iteration tries the typedef, struct, define and function
\* parsers in that order on the remaining text: the parser that matches is
\* the first one that does not return None, the next iteration starts on the
\* text after the match, and the loop is left by its break only when all
\* four return None on the same text
C23_TriedInOrder ==
    [][pc = "loop" =>
          TriedInOrder(ctypes_parse_typedef(s, Tables), ctypes_parse_struct(s, Tables),
                       ctypes_parse_define(s, Tables), ctypes_parse_function(s, Tables))]_vars

\* a prototype matched in an iteration that follows the match of a #define
C23_Witness ==
    /\ pc = "loop"
    /\ parser = "function"
    /\ DOMAIN constant_mapping # {}
    /\ DOMAIN proto_mapping # {}
    /\ Len(before) < Len(header)

\* the table new is the table old with a function type stored under name
FunctionStored(old, new, name) ==
    /\ DOMAIN new = DOMAIN old \cup {name}
    /\ new[name].base = "CFuncPtr"
    /\ new[name].name = name
    /\ \A k \in DOMAIN old \ {name} : new[k] = old[k]

\* what a match of ctypes_parse_function on the text s does to the tables,
\* name being the declared name
FunctionFrame(name) ==
    /\ constant_mapping' = constant_mapping
    /\ IF s[SkipSpace(s, 1)] = "typedef"
       THEN /\ FunctionStored(type_mapping, type_mapping', name)
            /\ proto_mapping' = proto_mapping
       ELSE /\ FunctionStored(proto_mapping, proto_mapping', name)
            /\ type_mapping' = type_mapping

\* C24: a match of ctypes_parse_function stores a function-pointer typedef
\* under its name in type_mapping and leaves proto_mapping as it was, stores
\* a bare prototype under its name in proto_mapping and leaves type_mapping
\* as it was, and never changes constant_mapping
C24_FunctionStoredInOneTable ==
    [][(pc = "loop" /\ pc' = "loop" /\ parser' = "function") =>
          LET Named(m) == FunctionFrame(Remove(m.fname[Len(m.fname)], "*"))
          IN  Named(FunctionPattern(s))]_vars

\* a function-pointer typedef and a prototype registered by the same call
C24_Witness ==
    /\ pc = "loop"
    /\ parser = "function"
    /\ <<"cb">> \in DOMAIN type_mapping
    /\ <<"f">> \in DOMAIN proto_mapping

\* C30: when the typedef, struct or function parser raises, type_mapping,
\* constant_mapping and proto_mapping are as they were before the call: the
\* declaration is registered completely or not at all
C30_RaiseRegistersNothing ==
    [][(pc = "loop" /\ pc' = "raised" /\ parser' \in {"typedef", "struct", "function"})
          => /\ type_mapping' = type_mapping
             /\ constant_mapping' = constant_mapping
             /\ proto_mapping' = proto_mapping]_vars

\* the struct parser has raised on the unsupported field of the second
\* declaration, after the typedef of the first one was registered
C30_Witness ==
    /\ header = DeclTypedef \o DeclFieldCallback
    /\ pc = "raised"
    /\ parser = "struct"
    /\ err = "ValueError"
    /\ <<"A">> \in DOMAIN type_mapping
    /\ <<"S">> \notin DOMAIN type_mapping

(***************************************************************************)
(* Properties of array sizes (SpecArray)                                   *)
(***************************************************************************)
\* the size written between the brackets of the typedef that ends header
SizeWritten == header[Len(header) - 3]

\* the decimal literal of the integer n
Literal(n) == (CHOOSE x \in DOMAIN DecLits : DecLits[x] = n)[1]

\* the typedef parser is the one that answers in this iteration, and the
\* size written names an integer constant
SizedByConstant ==
    /\ pc = "loop"
    /\ parser' = "typedef"
    /\ <<SizeWritten>> \in DOMAIN constant_mapping
    /\ constant_mapping[<<SizeWritten>>].kind = "int"

\* C25: a typedef whose array size is the name of an integer constant, an
\* alias of another constant included, registers the layout that the same
\* typedef registers with the value of the constant written as a literal
C25_SizeByConstantName ==
    [][SizedByConstant =>
          LET AsLiteral(r) ==
                  /\ r.err = ""
                  /\ pc' = "loop"
                  /\ <<"P">> \in DOMAIN type_mapping'
                  /\ type_mapping'[<<"P">>] = r.T.type_mapping[<<"P">>]
          IN  AsLiteral(ctypes_parse_definitions(
                  ArrayTypedef(Literal(constant_mapping[<<SizeWritten>>].num)),
                  FreshTables))]_vars

\* typedef char P[B]; after #define A 5 and #define B A
C25_Witness ==
    /\ pc = "returned"
    /\ header = DeclA5 \o DeclBA \o ArrayTypedef("B")
    /\ type_mapping[<<"P">>] = ArrayOf(Prim("c_char"), 5)

(***************************************************************************)
(* Properties of a CTypesHelper shared by threads (SpecThreads)            *)
(***************************************************************************)
\* C29: when threads invoke the same unbound helper concurrently, the
\* includes are parsed once and one namespace is built, and every
\* invocation that returns, theirs and the later ones, returns that same
\* namespace object
C29_BoundOnceForAllThreads ==
    /\ parses <= Len(self_includes)
    /\ namespaces <= 1
    /\ \A t, u \in Threads :
           (threads[t].ret.kind = "returned" /\ threads[u].ret.kind = "returned")
              => /\ ~threads[t].ret.c.isNone
                 /\ threads[t].ret.c.id = threads[u].ret.c.id

=========================================================================
